---- MODULE Spec2Model ----
(***************************************************************************)
(* Model of Sahabat Nusantara.  The backend: the per-IP rate limiter       *)
(* (backend/middleware/rateLimit.js, src/unnamed/part_003), the message    *)
(* validation middleware (backend/middleware/security.js) and the chat     *)
(* route with its in-memory conversation store (backend/routes/chat.js).   *)
(* The browser: the page's RateLimiter (public/js/rateLimit.js), its       *)
(* ChatStorage and ApiClient (src/unnamed/part_006), SecurityUtils and     *)
(* ChatUtils (public/js) and the page script (src/unnamed/part_004).       *)
(*                                                                         *)
(* Node runs every handler to completion on one thread, so each            *)
(* synchronous run of the middleware chain is one action; the only point   *)
(* where another request can interleave is the await of the external AI    *)
(* call inside handleChatRequest.                                          *)
(***************************************************************************)
EXTENDS Integers, Sequences, FiniteSets, Bags, TLC

VARIABLES
    now,                \* Date.now(): the clock, in milliseconds
    rateLimitStore,     \* part_003:6   Map ip -> {count, resetTime, blocked, blockedUntil}
    conversationMemory, \* chat.js:13   Map sessionId -> {messages, lastActivity}
    inflight,           \* bag of the chat requests suspended at the await of chat.js:169
    last,               \* history: what the most recent handler run did
    blockEnd,           \* history: ip -> end of the block last triggered for it (0: none open)
    burst,              \* history: ip -> requests sent / admitted / denied since the first one
    recorded,           \* history: sessionId -> every turn recorded since the session was created
    admitLog,           \* history: ip -> the admissions of the last windowMs, each with its window
    seen,               \* history: ip -> the time of the key's most recent request
    requests,           \* rateLimit.js:13  RateLimiter.requests, the times of the allowed calls
    isBlocked,          \* rateLimit.js:14  RateLimiter.isBlocked
    blockUntil,         \* rateLimit.js:15  RateLimiter.blockUntil
    allowedLog,         \* history: the times of the allowed calls less than timeWindow old
    cooldown,           \* history: the time of the limit denial whose cooldown is running
    localStorage,       \* part_006:40  the item stored under ChatStorage.storageKey
    storageLog,         \* history: the calls that saved a history, and the messages they added
    stale,              \* history: bag of the requests in flight that a clear of their key overtook
    solo,               \* history: ip -> the store of the run that holds the requests of ip only
    isProcessing,       \* chatUtils.js:11  ChatUtils.isProcessing
    currentController,  \* part_006:216    ApiClient.currentController: null, or a call's controller
    submits             \* part_004:76-95  the submits that passed the checks, in order: each
                        \* one's call of sendMessage, loading element and cancelMessageShown

\* The history of the rate-limiter specifications that follow windows
guardHist == <<admitLog, seen>>

\* The client-side RateLimiter and its history
limiterVars == <<requests, isBlocked, blockUntil, allowedLog, cooldown>>

\* ChatStorage and its history
storageVars == <<localStorage, storageLog>>

\* The state of the browser
browserVars == <<limiterVars, storageVars>>

\* The chat page: ChatUtils, ApiClient and the closures of the submit handler
uiVars == <<isProcessing, currentController, submits>>

vars == <<now, rateLimitStore, conversationMemory, inflight, last, blockEnd, burst, recorded,
          guardHist, browserVars, stale, solo, uiVars>>

(***************************************************************************)
(* JavaScript Map                                                          *)
(***************************************************************************)
EmptyMap == [k \in {} |-> 0]

MapHas(m, k) == k \in DOMAIN m

MapSet(m, k, v) == [x \in (DOMAIN m) \cup {k} |-> IF x = k THEN v ELSE m[x]]

MapDelete(m, k) == [x \in (DOMAIN m) \ {k} |-> m[x]]

(***************************************************************************)
(* Rate limiter: configuration                                             *)
(***************************************************************************)
windowMs == 60000

maxRequests == 10

blockDuration == 300000

\* Math.ceil(ms / 1000) of part_003:30 (\div rounds towards minus infinity)
CeilSeconds(ms) == -((-ms) \div 1000)

\* Bodies of the two 429 answers (part_003:32 and part_003:82): the first
\* carries the remaining seconds, the second is a fixed text.
BodyBlocked == "Coba lagi dalam N detik"

BodyTriggered == "Anda diblokir sementara"

NoSeconds == -1

(***************************************************************************)
(* Rate limiter: the code                                                  *)
(***************************************************************************)
\* part_003:51-57: entries whose window started more than windowMs ago go.
cleanupOldEntriesAtBoundary(store, t) ==
    [ip \in {k \in DOMAIN store : ~(t - store[k].resetTime >= windowMs)} |-> store[ip]]

cleanupOldEntriesClearsStore(store, t) ==
    IF \E ip \in DOMAIN store : t - store[ip].resetTime > windowMs THEN EmptyMap ELSE store

cleanupOldEntriesKeepsBlocked(store, t) ==
    [ip \in {k \in DOMAIN store :
                \/ ~(t - store[k].resetTime > windowMs)
                \/ store[k].blocked /\ t < store[k].blockedUntil} |-> store[ip]]

cleanupOldEntries(store, t) ==
    [ip \in {k \in DOMAIN store : ~(t - store[k].resetTime > windowMs)} |-> store[ip]]

\* part_003:65-86.  The result carries the store and what was written to res.
updateRequestCounterOffByOne(store, clientIP, t) ==
    IF ~MapHas(store, clientIP)
    THEN [store |-> MapSet(store, clientIP,
                      [count |-> 1, resetTime |-> t, blocked |-> FALSE, blockedUntil |-> 0]),
          status |-> 0, body |-> "", seconds |-> NoSeconds]
    ELSE LET data == [store[clientIP] EXCEPT !.count = @ + 1] IN
         IF data.count >= maxRequests
         THEN [store |-> MapSet(store, clientIP,
                           [data EXCEPT !.blocked = TRUE, !.blockedUntil = t + blockDuration]),
               status |-> 429, body |-> BodyTriggered, seconds |-> NoSeconds]
         ELSE [store |-> MapSet(store, clientIP, data),
               status |-> 0, body |-> "", seconds |-> NoSeconds]

updateRequestCounterLostUpdate(store, clientIP, t) ==
    IF ~MapHas(store, clientIP)
    THEN [store |-> MapSet(store, clientIP,
                      [count |-> 1, resetTime |-> t, blocked |-> FALSE, blockedUntil |-> 0]),
          status |-> 0, body |-> "", seconds |-> NoSeconds]
    ELSE LET data == [store[clientIP] EXCEPT !.count = @ + 1] IN
         IF data.count > maxRequests
         THEN [store |-> MapSet(store, clientIP,
                           [data EXCEPT !.blocked = TRUE, !.blockedUntil = t + blockDuration]),
               status |-> 429, body |-> BodyTriggered, seconds |-> NoSeconds]
         ELSE [store |-> IF t = store[clientIP].resetTime THEN store
                         ELSE MapSet(store, clientIP, data),
               status |-> 0, body |-> "", seconds |-> NoSeconds]

updateRequestCounterBlocksFromWindowStart(store, clientIP, t) ==
    IF ~MapHas(store, clientIP)
    THEN [store |-> MapSet(store, clientIP,
                      [count |-> 1, resetTime |-> t, blocked |-> FALSE, blockedUntil |-> 0]),
          status |-> 0, body |-> "", seconds |-> NoSeconds]
    ELSE LET data == [store[clientIP] EXCEPT !.count = @ + 1] IN
         IF data.count > maxRequests
         THEN [store |-> MapSet(store, clientIP,
                           [data EXCEPT !.blocked = TRUE,
                                        !.blockedUntil = data.resetTime + blockDuration]),
               status |-> 429, body |-> BodyTriggered, seconds |-> NoSeconds]
         ELSE [store |-> MapSet(store, clientIP, data),
               status |-> 0, body |-> "", seconds |-> NoSeconds]

updateRequestCounterAdmitsOneMore(store, clientIP, t) ==
    IF ~MapHas(store, clientIP)
    THEN [store |-> MapSet(store, clientIP,
                      [count |-> 1, resetTime |-> t, blocked |-> FALSE, blockedUntil |-> 0]),
          status |-> 0, body |-> "", seconds |-> NoSeconds]
    ELSE LET data == [store[clientIP] EXCEPT !.count = @ + 1] IN
         IF data.count > maxRequests + 1
         THEN [store |-> MapSet(store, clientIP,
                           [data EXCEPT !.blocked = TRUE, !.blockedUntil = t + blockDuration]),
               status |-> 429, body |-> BodyTriggered, seconds |-> NoSeconds]
         ELSE [store |-> MapSet(store, clientIP, data),
               status |-> 0, body |-> "", seconds |-> NoSeconds]

updateRequestCounter(store, clientIP, t) ==
    IF ~MapHas(store, clientIP)
    THEN [store |-> MapSet(store, clientIP,
                      [count |-> 1, resetTime |-> t, blocked |-> FALSE, blockedUntil |-> 0]),
          status |-> 0, body |-> "", seconds |-> NoSeconds]
    ELSE LET data == [store[clientIP] EXCEPT !.count = @ + 1] IN
         IF data.count > maxRequests
         THEN [store |-> MapSet(store, clientIP,
                           [data EXCEPT !.blocked = TRUE, !.blockedUntil = t + blockDuration]),
               status |-> 429, body |-> BodyTriggered, seconds |-> NoSeconds]
         ELSE [store |-> MapSet(store, clientIP, data),
               status |-> 0, body |-> "", seconds |-> NoSeconds]

\* part_003:20-45.  status is what the middleware wrote to res (0: nothing),
\* next tells whether next() was called.  The return of part_003:81 leaves
\* updateRequestCounter only: line 44 runs after it whatever it answered.
rateLimitMiddlewareExtendsBlock(store, clientIP, t) ==
    LET s1 == cleanupOldEntries(store, t) IN
    IF MapHas(s1, clientIP) /\ s1[clientIP].blocked /\ t < s1[clientIP].blockedUntil
    THEN [store |-> MapSet(s1, clientIP,
                      [s1[clientIP] EXCEPT !.count = @ + 1, !.blockedUntil = t + blockDuration]),
          status |-> 429, body |-> BodyBlocked,
          seconds |-> CeilSeconds(s1[clientIP].blockedUntil - t), next |-> FALSE]
    ELSE LET s2 == IF MapHas(s1, clientIP) /\ s1[clientIP].blocked
                      /\ t >= s1[clientIP].blockedUntil
                   THEN MapDelete(s1, clientIP) ELSE s1
             u  == updateRequestCounter(s2, clientIP, t)
         IN [store |-> u.store, status |-> u.status, body |-> u.body,
             seconds |-> u.seconds, next |-> TRUE]

rateLimitMiddlewareFloorSeconds(store, clientIP, t) ==
    LET s1 == cleanupOldEntries(store, t) IN
    IF MapHas(s1, clientIP) /\ s1[clientIP].blocked /\ t < s1[clientIP].blockedUntil
    THEN [store |-> s1, status |-> 429, body |-> BodyBlocked,
          seconds |-> (s1[clientIP].blockedUntil - t) \div 1000, next |-> FALSE]
    ELSE LET s2 == IF MapHas(s1, clientIP) /\ s1[clientIP].blocked
                      /\ t >= s1[clientIP].blockedUntil
                   THEN MapDelete(s1, clientIP) ELSE s1
             u  == updateRequestCounter(s2, clientIP, t)
         IN [store |-> u.store, status |-> u.status, body |-> u.body,
             seconds |-> u.seconds, next |-> TRUE]

rateLimitMiddleware(store, clientIP, t) ==
    LET s1 == cleanupOldEntries(store, t) IN
    IF MapHas(s1, clientIP) /\ s1[clientIP].blocked /\ t < s1[clientIP].blockedUntil
    THEN [store |-> s1, status |-> 429, body |-> BodyBlocked,
          seconds |-> CeilSeconds(s1[clientIP].blockedUntil - t), next |-> FALSE]
    ELSE LET s2 == IF MapHas(s1, clientIP) /\ s1[clientIP].blocked
                      /\ t >= s1[clientIP].blockedUntil
                   THEN MapDelete(s1, clientIP) ELSE s1
             u  == updateRequestCounter(s2, clientIP, t)
         IN [store |-> u.store, status |-> u.status, body |-> u.body,
             seconds |-> u.seconds, next |-> TRUE]

(***************************************************************************)
(* Strings are sequences of one-character strings.                         *)
(***************************************************************************)
LowerLetters == {"a","b","c","d","e","f","g","h","i","j","k","l","m",
                 "n","o","p","q","r","s","t","u","v","w","x","y","z"}

UpperLetters == {"A","B","C","D","E","F","G","H","I","J","K","L","M",
                 "N","O","P","Q","R","S","T","U","V","W","X","Y","Z"}

Digits == {"0","1","2","3","4","5","6","7","8","9"}

\* \w of a JavaScript regular expression
WordChars == LowerLetters \cup UpperLetters \cup Digits \cup {"_"}

\* \s of a JavaScript regular expression (the members that occur here)
SpaceChars == {" ", "\t", "\n", "\r"}

NUL == "\\0"

\* Lower case of the letters that occur in the patterns of security.js and
\* of securityUtils.js
ToLower(c) ==
    CASE c = "J" -> "j" [] c = "A" -> "a" [] c = "V" -> "v" [] c = "S" -> "s"
      [] c = "C" -> "c" [] c = "R" -> "r" [] c = "I" -> "i" [] c = "P" -> "p"
      [] c = "T" -> "t" [] c = "O" -> "o" [] c = "N" -> "n" [] c = "F" -> "f"
      [] c = "M" -> "m" [] c = "E" -> "e" [] c = "B" -> "b" [] c = "D" -> "d"
      [] OTHER -> c

Drop(s, n) == SubSeq(s, n + 1, Len(s))

Take(s, n) == SubSeq(s, 1, IF n < Len(s) THEN n ELSE Len(s))

\* String.prototype.trim
RECURSIVE TrimLeft(_)
TrimLeft(s) == IF s # <<>> /\ Head(s) \in SpaceChars THEN TrimLeft(Tail(s)) ELSE s

RECURSIVE TrimRight(_)
TrimRight(s) ==
    IF s # <<>> /\ s[Len(s)] \in SpaceChars THEN TrimRight(SubSeq(s, 1, Len(s) - 1)) ELSE s

Trim(s) == TrimRight(TrimLeft(s))

\* replace(/[...]/g, '') for a class of single characters
RemoveChars(s, class) == SelectSeq(s, LAMBDA c : c \notin class)

\* s starts with word, letter case ignored
StartsWithIgnoreCase(s, word) ==
    /\ Len(s) >= Len(word)
    /\ \A i \in 1..Len(word) : ToLower(s[i]) = word[i]

\* replace(/javascript:/gi, ''): one pass from the left, matches removed,
\* the scan resuming after each match
JavascriptScheme == <<"j","a","v","a","s","c","r","i","p","t",":">>

RECURSIVE RemoveJavascript(_)
RemoveJavascript(s) ==
    IF s = <<>> THEN <<>>
    ELSE IF StartsWithIgnoreCase(s, JavascriptScheme)
         THEN RemoveJavascript(Drop(s, Len(JavascriptScheme)))
         ELSE <<Head(s)>> \o RemoveJavascript(Tail(s))

\* The length of the longest prefix of s made of characters of class
RECURSIVE Span(_, _)
Span(s, class) == IF s # <<>> /\ Head(s) \in class THEN 1 + Span(Tail(s), class) ELSE 0

\* The length of the match of /on\w+\s*=/i at the start of s, 0 if none.
\* \w, \s and "=" are disjoint, so the greedy match is the only one.
HandlerMatch(s) ==
    IF ~StartsWithIgnoreCase(s, <<"o","n">>) THEN 0
    ELSE LET w  == Span(Drop(s, 2), WordChars)
             sp == Span(Drop(s, 2 + w), SpaceChars)
         IN IF w >= 1 /\ Len(s) > 2 + w + sp /\ s[2 + w + sp + 1] = "="
            THEN 2 + w + sp + 1 ELSE 0

\* replace(/on\w+\s*=/gi, '')
RECURSIVE RemoveHandlers(_)
RemoveHandlers(s) ==
    IF s = <<>> THEN <<>>
    ELSE IF HandlerMatch(s) > 0
         THEN RemoveHandlers(Drop(s, HandlerMatch(s)))
         ELSE <<Head(s)>> \o RemoveHandlers(Tail(s))

\* The pattern /javascript:/i matches somewhere in m
ContainsJavascript(m) ==
    \E i \in 1..Len(m) : StartsWithIgnoreCase(Drop(m, i - 1), JavascriptScheme)

\* The pattern /on\w+\s*=/i matches somewhere in m
ContainsHandler(m) == \E i \in 1..Len(m) : HandlerMatch(Drop(m, i - 1)) > 0

(***************************************************************************)
(* backend/middleware/security.js                                          *)
(***************************************************************************)
maxMessageLength == 1000

\* JavaScript values of req.body.message: a string, a missing field, or a
\* value of another type (an object).
JsString(chars) == [type |-> "string", chars |-> chars]

JsUndefined == [type |-> "undefined"]

JsObject == [type |-> "object"]

\* !v of JavaScript for these values
Falsy(v) == v.type = "undefined" \/ (v.type = "string" /\ v.chars = <<>>)

\* security.js:36-41
sanitize(chars) ==
    RemoveChars(RemoveHandlers(RemoveJavascript(
        RemoveChars(Trim(chars), {"<", ">"}))), {NUL})

\* security.js:10-55
validateAndSanitizeMessage(userMessage) ==
    IF Falsy(userMessage) THEN [isValid |-> FALSE, error |-> "Pesan tidak boleh kosong."]
    ELSE IF userMessage.type # "string"
    THEN [isValid |-> FALSE, error |-> "Format pesan tidak valid."]
    ELSE IF Len(userMessage.chars) > maxMessageLength
    THEN [isValid |-> FALSE, error |-> "Pesan terlalu panjang. Maksimal 1000 karakter."]
    ELSE LET sanitizedMessage == sanitize(userMessage.chars) IN
         IF sanitizedMessage = <<>>
         THEN [isValid |-> FALSE, error |-> "Pesan tidak valid setelah pembersihan."]
         ELSE [isValid |-> TRUE, sanitizedMessage |-> sanitizedMessage]

(***************************************************************************)
(* public/js/securityUtils.js: the validation the page runs on a message   *)
(***************************************************************************)
maxLength == 1000

\* A pattern /<tag\b[^<]*(?:(?!<\/tag>)<[^<]*)*<\/tag>/i matches somewhere in
\* m: an opening "<tag" that a non-word character follows, and a closing
\* "</tag>" after it; the middle of the pattern matches any text that holds
\* no "</tag>".
ContainsElement(m, tag) ==
    LET open  == <<"<">> \o tag
        close == <<"<", "/">> \o tag \o <<">">>
    IN \E i \in 1..Len(m) :
          /\ StartsWithIgnoreCase(Drop(m, i - 1), open)
          /\ Len(m) >= i + Len(open)
          /\ m[i + Len(open)] \notin WordChars
          /\ \E j \in (i + Len(open))..Len(m) : StartsWithIgnoreCase(Drop(m, j - 1), close)

\* securityUtils.js:44-51
DangerousElements ==
    {<<"s","c","r","i","p","t">>, <<"i","f","r","a","m","e">>,
     <<"o","b","j","e","c","t">>, <<"e","m","b","e","d">>}

\* securityUtils.js:53-61: one of dangerousPatterns matches
IsDangerous(m) ==
    \/ \E tag \in DangerousElements : ContainsElement(m, tag)
    \/ ContainsJavascript(m)
    \/ ContainsHandler(m)

\* securityUtils.js:100-107
entityMap(char) ==
    CASE char = "&"  -> <<"&","a","m","p",";">>
      [] char = "<"  -> <<"&","l","t",";">>
      [] char = ">"  -> <<"&","g","t",";">>
      [] char = "\"" -> <<"&","q","u","o","t",";">>
      [] char = "'"  -> <<"&","#","3","9",";">>
      [] char = "/"  -> <<"&","#","x","2","F",";">>
      [] OTHER       -> <<char>>

\* securityUtils.js:99-110
RECURSIVE sanitizeHtml(_)
sanitizeHtml(text) ==
    IF text = <<>> THEN <<>> ELSE entityMap(Head(text)) \o sanitizeHtml(Tail(text))

\* securityUtils.js:67: the class of the special characters
SpecialChars ==
    {"!", "@", "#", "$", "%", "^", "&", "*", "(", ")", "_", "+", "=", "{", "}", "[", "]",
     "|", "\\", ":", "\"", ";", "'", "<", ">", "?", ",", ".", "/"}

\* The pattern /(.{1,3})\1{n,}/ matches somewhere in text: a piece of one to
\* three characters, none a line terminator, followed by n copies of itself
RepeatsPiece(text, n) ==
    \E i \in 1..Len(text), k \in 1..3 :
        /\ Len(text) >= i - 1 + k * (n + 1)
        /\ \A j \in i..(i - 1 + k * (n + 1)) : text[j] \notin {"\n", "\r"}
        /\ \A j \in i..(i - 1 + k * n) : text[j] = text[j + k]

\* securityUtils.js:117-132.  /(.)\1{5,}/ is the case of a piece of one
\* character of the second pattern, with 5 copies instead of 10.
hasExcessiveRepeatedChars(text) ==
    \/ \E i \in 1..Len(text) :
          /\ Len(text) >= i + 5
          /\ text[i] \notin {"\n", "\r"}
          /\ \A j \in i..(i + 4) : text[j] = text[j + 1]
    \/ RepeatsPiece(text, 10)

\* securityUtils.js:11-92.  The message is the value of the input field,
\* always a string.
validateMessage(message) ==
    LET trimmed   == Trim(message)
        sanitized == sanitizeHtml(trimmed)
        specialCharCount == Len(SelectSeq(sanitized, LAMBDA c : c \in SpecialChars))
        Invalid(error) == [isValid |-> FALSE, error |-> error, sanitizedMessage |-> <<>>]
    IN IF trimmed = <<>> THEN Invalid("Pesan tidak boleh kosong")
       ELSE IF Len(trimmed) > maxLength
       THEN Invalid("Pesan terlalu panjang. Maksimal 1000 karakter")
       ELSE IF IsDangerous(trimmed)
       THEN Invalid("Pesan mengandung konten yang tidak diizinkan")
       ELSE IF 2 * specialCharCount > Len(sanitized) /\ Len(sanitized) > 10
       THEN Invalid("Pesan mengandung terlalu banyak karakter khusus")
       ELSE IF hasExcessiveRepeatedChars(sanitized)
       THEN Invalid("Pesan mengandung terlalu banyak karakter berulang")
       ELSE [isValid |-> TRUE, error |-> "", sanitizedMessage |-> sanitized]

(***************************************************************************)
(* backend/routes/chat.js: the conversation store                          *)
(***************************************************************************)
MAX_CONVERSATION_LENGTH == 10

MEMORY_CLEANUP_INTERVAL == 30 * 60 * 1000

GEMINI_MODEL == "gemini-2.5-flash"

SessionIdLength == 16

\* chat.js:34-38: the first 16 base64 characters of "<ip>-<userAgent>".
\* Base64 maps each 3 bytes to 4 characters one to one, so the id is
\* represented by the 12-byte prefix it encodes.
generateSessionId(ip, userAgent) ==
    Take(ip \o <<"-">> \o userAgent, (SessionIdLength \div 4) * 3)

\* Array.prototype.slice(-n)
SliceLast(a, n) == IF Len(a) > n THEN SubSeq(a, Len(a) - n + 1, Len(a)) ELSE a

\* chat.js:45-53: get-or-create.  Returns the store after the call.
getConversationHistory(mem, sessionId, t) ==
    IF ~MapHas(mem, sessionId)
    THEN MapSet(mem, sessionId, [messages |-> <<>>, lastActivity |-> t])
    ELSE mem

\* chat.js:61-76
addToConversationHistoryKeepOldest(mem, sessionId, role, content, t) ==
    LET m1     == getConversationHistory(mem, sessionId, t)
        pushed == Append(m1[sessionId].messages,
                         [role |-> role, content |-> content, timestamp |-> t])
        kept   == IF Len(pushed) > MAX_CONVERSATION_LENGTH * 2
                  THEN SubSeq(pushed, 1, MAX_CONVERSATION_LENGTH * 2)
                  ELSE pushed
    IN MapSet(m1, sessionId, [messages |-> kept, lastActivity |-> t])

addToConversationHistory(mem, sessionId, role, content, t) ==
    LET m1     == getConversationHistory(mem, sessionId, t)
        pushed == Append(m1[sessionId].messages,
                         [role |-> role, content |-> content, timestamp |-> t])
        kept   == IF Len(pushed) > MAX_CONVERSATION_LENGTH * 2
                  THEN SliceLast(pushed, MAX_CONVERSATION_LENGTH * 2)
                  ELSE pushed
    IN MapSet(m1, sessionId, [messages |-> kept, lastActivity |-> t])

ContextWindow == 8

\* chat.js:83-101.  The text is represented by its lines: the heading, one
\* labelled line per message, and the marker of the new question.
buildConversationContextOldestTurns(messages) ==
    IF Len(messages) = 0 THEN <<>>
    ELSE LET recentMessages == Take(messages, ContextWindow) IN
         <<[label |-> "Konteks percakapan sebelumnya:", text |-> <<>>]>>
         \o [i \in 1..Len(recentMessages) |->
                [label |-> IF recentMessages[i].role = "user"
                           THEN "Pengguna" ELSE "Sahabat Nusantara",
                 text  |-> recentMessages[i].content]]
         \o <<[label |-> "Pertanyaan pengguna saat ini:", text |-> <<>>]>>

buildConversationContext(messages) ==
    IF Len(messages) = 0 THEN <<>>
    ELSE LET recentMessages == SliceLast(messages, ContextWindow) IN
         <<[label |-> "Konteks percakapan sebelumnya:", text |-> <<>>]>>
         \o [i \in 1..Len(recentMessages) |->
                [label |-> IF recentMessages[i].role = "user"
                           THEN "Pengguna" ELSE "Sahabat Nusantara",
                 text  |-> recentMessages[i].content]]
         \o <<[label |-> "Pertanyaan pengguna saat ini:", text |-> <<>>]>>

\* chat.js:106-115
cleanupOldConversationsAtCutoff(mem, t) ==
    LET cutoff == t - MEMORY_CLEANUP_INTERVAL IN
    [sid \in {k \in DOMAIN mem : ~(mem[k].lastActivity <= cutoff)} |-> mem[sid]]

cleanupOldConversations(mem, t) ==
    LET cutoff == t - MEMORY_CLEANUP_INTERVAL IN
    [sid \in {k \in DOMAIN mem : ~(mem[k].lastActivity < cutoff)} |-> mem[sid]]

\* "Maaf, terjadi kesalahan dalam memproses permintaan Anda.", by its first word
FallbackReply == <<"M", "a", "a", "f">>

\* chat.js:122-127.  A response is represented by where it carries its text.
ResponseShapes == {"response.candidates.parts", "candidates.parts",
                   "response.candidates.text", "none"}

extractResponseText(resp) == IF resp.shape = "none" THEN FallbackReply ELSE resp.text

\* chat.js:134-142
validateSelectedModel(model) ==
    IF model \in {"gemini-2.5-flash", "gemini-1.5-pro", "gemini-1.5-flash"}
    THEN model ELSE GEMINI_MODEL

(***************************************************************************)
(* Clients and clock of the rate-limiter specifications                    *)
(***************************************************************************)
IPs == {<<":", ":", "1">>, <<":", ":", "2">>}

MaxLate == 1

MaxJitter == 1

\* The windows in which requests arrive: the first two, and those around the
\* end of a block triggered in the first.
Windows == {0, 1} \cup {blockDuration \div windowMs + k : k \in 0..MaxLate}

\* The instants at which requests arrive: the start of a window plus a few
\* ms, so that both sides of every "> windowMs" and "< blockedUntil" are met.
Instants == {c * windowMs + f : c \in Windows, f \in 0..MaxJitter}

NoEntry == [count |-> 0, resetTime |-> 0, blocked |-> FALSE, blockedUntil |-> 0]

EntryOf(store, ip) == IF MapHas(store, ip) THEN store[ip] ELSE NoEntry

Idle == [op |-> "none"]

\* The history record of one rateLimitMiddleware call: what it answered,
\* the entry of ip before the call (had, prev) and the end of the block that
\* was open for ip before the call (openEnd).
RateOutcome(store, ip, t, openEnd) ==
    LET r == rateLimitMiddleware(store, ip, t) IN
    [op |-> "rate", ip |-> ip, status |-> r.status, body |-> r.body,
     seconds |-> r.seconds, next |-> r.next,
     had |-> MapHas(store, ip), prev |-> EntryOf(store, ip), openEnd |-> openEnd]

\* The end of the block a request of ip at t leaves open: a triggering
\* request opens one until t + blockDuration, a request at or after the end
\* of the open one closes it.
BlockEndAfter(be, r, ip, t) ==
    IF r.status = 429 /\ r.body = BodyTriggered THEN [be EXCEPT ![ip] = t + blockDuration]
    ELSE IF be[ip] > 0 /\ t >= be[ip] THEN [be EXCEPT ![ip] = 0]
    ELSE be

NoBurst == [sent |-> 0, admitted |-> 0, denied |-> 0, first |-> 0]

\* No limit denial has a cooldown running
NoCooldown == [open |-> FALSE, at |-> 0]

\* localStorage.getItem answers null: nothing is stored under the key
NoItem == [present |-> FALSE]

NoStorageLog == [calls |-> 0, added |-> <<>>]

HistInit ==
    /\ stale = EmptyBag
    /\ solo = EmptyMap
    /\ admitLog = EmptyMap
    /\ seen = EmptyMap

\* rateLimit.js:13-15 (a new RateLimiter) and a browser with nothing stored
LimiterInit ==
    /\ requests = <<>>
    /\ isBlocked = FALSE
    /\ blockUntil = 0
    /\ allowedLog = <<>>
    /\ cooldown = NoCooldown

\* chatUtils.js:11 and part_006:216 (a page just loaded): nothing submitted
NoController == 0

PageInit ==
    /\ isProcessing = FALSE
    /\ currentController = NoController
    /\ submits = <<>>

BrowserInit ==
    /\ LimiterInit
    /\ PageInit
    /\ localStorage = NoItem
    /\ storageLog = NoStorageLog

RateInit ==
    /\ now = 0
    /\ rateLimitStore = EmptyMap
    /\ conversationMemory = EmptyMap
    /\ inflight = EmptyBag
    /\ last = Idle
    /\ blockEnd = [ip \in IPs |-> 0]
    /\ burst = [ip \in IPs |-> NoBurst]
    /\ recorded = EmptyMap
    /\ HistInit
    /\ BrowserInit

\* A request of ip reaches rateLimitMiddleware at time t.
RateRequest(ip, t) ==
    LET r == rateLimitMiddleware(rateLimitStore, ip, t) IN
    /\ t >= now
    /\ now' = t
    /\ rateLimitStore' = r.store
    /\ last' = RateOutcome(rateLimitStore, ip, t, blockEnd[ip])
    /\ blockEnd' = BlockEndAfter(blockEnd, r, ip, t)
    /\ UNCHANGED <<conversationMemory, inflight, burst, recorded, guardHist, browserVars, stale, solo, uiVars>>

RateNext == \E ip \in IPs, t \in Instants : RateRequest(ip, t)

SpecRate == RateInit /\ [][RateNext]_vars

(***************************************************************************)
(* A burst: BurstSize requests per key, all within windowMs of the key's   *)
(* first one, the keys' requests interleaved in every order.  Every        *)
(* rateLimitMiddleware call runs to completion before the next starts.     *)
(***************************************************************************)
BurstSize == maxRequests + 5

BurstAfter(b, r, t) ==
    [sent     |-> b.sent + 1,
     admitted |-> b.admitted + (IF r.status = 429 THEN 0 ELSE 1),
     denied   |-> b.denied + (IF r.status = 429 THEN 1 ELSE 0),
     first    |-> IF b.sent = 0 THEN t ELSE b.first]

BurstRequest(ip, t) ==
    LET r == rateLimitMiddleware(rateLimitStore, ip, t) IN
    /\ t >= now
    /\ burst[ip].sent < BurstSize
    /\ burst[ip].sent > 0 => t - burst[ip].first <= windowMs
    /\ now' = t
    /\ rateLimitStore' = r.store
    /\ last' = RateOutcome(rateLimitStore, ip, t, 0)
    /\ burst' = [burst EXCEPT ![ip] = BurstAfter(@, r, t)]
    /\ UNCHANGED <<conversationMemory, inflight, blockEnd, recorded, guardHist, browserVars, stale, solo, uiVars>>

BurstNext == \E ip \in IPs, t \in Instants : BurstRequest(ip, t)

SpecBurst == RateInit /\ [][BurstNext]_vars

(***************************************************************************)
(* Windows: requests around the boundaries of consecutive windows, with    *)
(* the history of the admissions (the requests not answered 429) and of    *)
(* the keys' most recent requests.                                         *)
(***************************************************************************)
MaxWindowIndex == 2

WindowInstants == {c * windowMs + f : c \in 0..MaxWindowIndex, f \in 0..MaxJitter}

\* The admissions at most windowMs old at time t
RecentAdmissions(log, t) == SelectSeq(log, LAMBDA e : t - e.at <= windowMs)

LogOf(ip) == IF MapHas(admitLog, ip) THEN admitLog[ip] ELSE <<>>

\* A request of ip reaches rateLimitMiddleware at time t; an admission is
\* logged with the start of the window that counted it.
WindowRequest(ip, t) ==
    LET r == rateLimitMiddleware(rateLimitStore, ip, t) IN
    /\ t >= now
    /\ now' = t
    /\ rateLimitStore' = r.store
    /\ last' = RateOutcome(rateLimitStore, ip, t, 0)
    /\ admitLog' =
          [k \in (DOMAIN admitLog) \cup {ip} |->
              IF k = ip /\ r.status # 429
              THEN Append(RecentAdmissions(LogOf(k), t),
                          [at |-> t, window |-> r.store[ip].resetTime])
              ELSE RecentAdmissions(LogOf(k), t)]
    /\ seen' = MapSet(seen, ip, t)
    /\ UNCHANGED <<conversationMemory, inflight, blockEnd, burst, recorded, browserVars, stale, solo, uiVars>>

\* One key: what other keys do changes nothing of its entry (the purge of
\* part_003:51-57 treats every entry by its own resetTime).
WindowIPs == {<<":", ":", "1">>}

WindowNext == \E ip \in WindowIPs, t \in WindowInstants : WindowRequest(ip, t)

SpecWindow == RateInit /\ [][WindowNext]_vars

\* Several keys: a request of ip reaches rateLimitMiddleware at time t, and
\* the time of the key's most recent request is noted.
SeenRequest(ip, t) ==
    LET r == rateLimitMiddleware(rateLimitStore, ip, t) IN
    /\ t >= now
    /\ now' = t
    /\ rateLimitStore' = r.store
    /\ last' = RateOutcome(rateLimitStore, ip, t, 0)
    /\ seen' = MapSet(seen, ip, t)
    /\ UNCHANGED <<conversationMemory, inflight, blockEnd, burst, recorded, admitLog,
                   browserVars, stale, solo, uiVars>>

SeenNext == \E ip \in IPs, t \in WindowInstants : SeenRequest(ip, t)

SpecSeen == RateInit /\ [][SeenNext]_vars

(***************************************************************************)
(* Two keys side by side: next to the store, for every key the store of    *)
(* the run in which the key's requests arrive at the same times and those  *)
(* of the other keys do not arrive at all.                                 *)
(***************************************************************************)
SoloOf(ip) == IF MapHas(solo, ip) THEN solo[ip] ELSE EmptyMap

\* A request of ip reaches rateLimitMiddleware at time t.
SoloRequest(ip, t) ==
    LET r == rateLimitMiddleware(rateLimitStore, ip, t)
        a == rateLimitMiddleware(SoloOf(ip), ip, t)
    IN
    /\ t >= now
    /\ now' = t
    /\ rateLimitStore' = r.store
    /\ solo' = MapSet(solo, ip, a.store)
    /\ last' = [op |-> "rate", ip |-> ip, status |-> r.status, body |-> r.body,
                seconds |-> r.seconds, next |-> r.next,
                had |-> MapHas(rateLimitStore, ip), prev |-> EntryOf(rateLimitStore, ip),
                alone |-> [status |-> a.status, body |-> a.body, seconds |-> a.seconds,
                           next |-> a.next,
                           had |-> MapHas(SoloOf(ip), ip), prev |-> EntryOf(SoloOf(ip), ip)]]
    /\ UNCHANGED <<conversationMemory, inflight, blockEnd, burst, recorded, guardHist,
                   browserVars, stale, uiVars>>

SoloNext == \E ip \in IPs, t \in WindowInstants : SoloRequest(ip, t)

SpecSolo == RateInit /\ [][SoloNext]_vars

(***************************************************************************)
(* The server: POST /api/chat runs rateLimitMiddleware,                    *)
(* validateMessageMiddleware and handleChatRequest (part_001:44-49); POST  *)
(* /api/clear-conversation runs handleClearConversation.                   *)
(***************************************************************************)
MaxChatWindows == 1

MaxInFlight == 2

MaxChatTurns == 4

\* The instants at which the server's handlers run: each later than the
\* window that began at the one before.
ChatInstants == {c * (windowMs + 1) : c \in 0..MaxChatWindows}

\* One address with two browsers: two sessions behind one rate-limit entry.
ChatIPs == {<<":", ":", "1">>}

UserAgents == {<<"M", "o", "z">>, <<"c", "u", "r", "l">>}

\* The messages clients send: a missing one, one that is no string, one
\* that sanitization empties, and one it shortens.
ChatMessages ==
    {JsUndefined, JsObject, JsString(<<"<", ">">>),
     JsString(<<" ", "<", "h", "i", ">">>)}

RequestModels == {"gemini-1.5-pro"}

AIResponses == [shape : {"candidates.parts"}, text : {<<"H", "a", "l", "o">>}]

\* The number of requests of a session suspended at the await
InFlightOf(sid) ==
    BagCardinality([c \in {x \in BagToSet(inflight) : x.sessionId = sid} |-> inflight[c]])

SessionLength(sid) ==
    IF MapHas(conversationMemory, sid) THEN Len(conversationMemory[sid].messages) ELSE 0

Init ==
    /\ now = 0
    /\ rateLimitStore = EmptyMap
    /\ conversationMemory = EmptyMap
    /\ inflight = EmptyBag
    /\ last = Idle
    /\ blockEnd = [ip \in IPs |-> 0]
    /\ burst = [ip \in IPs |-> NoBurst]
    /\ recorded = EmptyMap
    /\ HistInit
    /\ BrowserInit

\* chat.js:149-172, the part of handleChatRequest before the await: the
\* store after getConversationHistory, and the suspended request.
handleChatRequestStartRecordsUser(mem, ip, userAgent, sanitizedMessage, model, headersSent, t) ==
    LET selectedModel       == validateSelectedModel(model)
        sessionId           == generateSessionId(ip, userAgent)
        mem1                == getConversationHistory(mem, sessionId, t)
        conversationContext == buildConversationContext(mem1[sessionId].messages)
    IN [mem |-> addToConversationHistory(mem1, sessionId, "user", sanitizedMessage, t),
        call |-> [ip |-> ip, sessionId |-> sessionId,
                  sanitizedMessage |-> sanitizedMessage, selectedModel |-> selectedModel,
                  context |-> conversationContext, headersSent |-> headersSent]]

handleChatRequestStart(mem, ip, userAgent, sanitizedMessage, model, headersSent, t) ==
    LET selectedModel       == validateSelectedModel(model)
        sessionId           == generateSessionId(ip, userAgent)
        mem1                == getConversationHistory(mem, sessionId, t)
        conversationContext == buildConversationContext(mem1[sessionId].messages)
    IN [mem |-> mem1,
        call |-> [ip |-> ip, sessionId |-> sessionId,
                  sanitizedMessage |-> sanitizedMessage, selectedModel |-> selectedModel,
                  context |-> conversationContext, headersSent |-> headersSent]]

\* The request reaches handleChatRequest: the rate limiter called next()
\* and the message is valid.
ReachesHandler(ip, message, t) ==
    /\ rateLimitMiddleware(rateLimitStore, ip, t).next
    /\ validateAndSanitizeMessage(message).isValid

\* A chat request arrives at time t and runs until it answers or suspends
\* at the await.  writes lists the status codes the handlers wrote to res.
ChatRequestStep(ip, userAgent, message, model, t) ==
    LET r   == rateLimitMiddleware(rateLimitStore, ip, t)
        v   == validateAndSanitizeMessage(message)
        sid == generateSessionId(ip, userAgent)
        passed == r.next /\ v.isValid
        h   == handleChatRequestStart(conversationMemory, ip, userAgent,
                                      v.sanitizedMessage, model, r.status # 0, t)
    IN
    /\ t >= now
    /\ now' = t
    /\ rateLimitStore' = r.store
    /\ conversationMemory' = IF passed THEN h.mem ELSE conversationMemory
    /\ inflight' = IF passed THEN inflight (+) SetToBag({h.call}) ELSE inflight
    /\ last' = [op |-> "chat", ip |-> ip, sessionId |-> sid,
                status |-> r.status, next |-> r.next,
                validateRan |-> r.next, handlerRan |-> passed,
                writes |-> (IF r.status # 0 THEN <<r.status>> ELSE <<>>)
                          \o (IF r.next /\ ~v.isValid THEN <<400>> ELSE <<>>)]
    /\ UNCHANGED <<blockEnd, burst, recorded, guardHist, browserVars, stale, solo, uiVars>>

\* The same, while the requests in flight and the turns of the session are
\* within the bounds.
ChatRequest(ip, userAgent, message, model, t) ==
    /\ ReachesHandler(ip, message, t) =>
          /\ BagCardinality(inflight) < MaxInFlight
          /\ SessionLength(generateSessionId(ip, userAgent))
                + 2 * InFlightOf(generateSessionId(ip, userAgent)) + 2 <= MaxChatTurns
    /\ ChatRequestStep(ip, userAgent, message, model, t)

\* The requests in flight that a clear overtook, after one of them settled
StaleAfterSettle(c) == IF BagIn(c, stale) THEN stale (-) SetToBag({c}) ELSE stale

\* The same after a clear of sessionId: every request of the key in flight is
\* overtaken.
StaleAfterClear(sessionId) ==
    [c \in {x \in BagToSet(inflight) : x.sessionId = sessionId} \cup BagToSet(stale) |->
        IF c.sessionId = sessionId THEN CopiesIn(c, inflight) ELSE CopiesIn(c, stale)]

\* chat.js:174-191: the AI call of a suspended request resolves.
ChatReply(c, resp, cleanup, t) ==
    LET botMessage == extractResponseText(resp)
        mem1 == addToConversationHistory(conversationMemory, c.sessionId, "user",
                                         c.sanitizedMessage, t)
        mem2 == addToConversationHistory(mem1, c.sessionId, "assistant", botMessage, t)
        mem3 == IF cleanup THEN cleanupOldConversations(mem2, t) ELSE mem2
    IN
    /\ BagIn(c, inflight)
    /\ t >= now
    /\ now' = t
    /\ conversationMemory' = mem3
    /\ inflight' = inflight (-) SetToBag({c})
    /\ stale' = StaleAfterSettle(c)
    /\ last' = [op |-> "reply", ip |-> c.ip, sessionId |-> c.sessionId,
                denied |-> c.headersSent, turnsRecorded |-> 2, overtaken |-> BagIn(c, stale),
                user |-> c.sanitizedMessage, bot |-> botMessage,
                cleanup |-> cleanup,
                purged |-> Cardinality(DOMAIN mem2) - Cardinality(DOMAIN mem3),
                writes |-> (IF c.headersSent THEN <<429>> ELSE <<>>) \o <<200>>
                          \o (IF c.headersSent THEN <<500>> ELSE <<>>)]
    /\ UNCHANGED <<rateLimitStore, blockEnd, burst, recorded, guardHist, browserVars, solo, uiVars>>

\* chat.js:192-195: the AI call of a suspended request rejects.
ChatError(c, t) ==
    /\ BagIn(c, inflight)
    /\ t >= now
    /\ now' = t
    /\ inflight' = inflight (-) SetToBag({c})
    /\ stale' = StaleAfterSettle(c)
    /\ last' = [op |-> "error", ip |-> c.ip, sessionId |-> c.sessionId,
                denied |-> c.headersSent, turnsRecorded |-> 0, overtaken |-> BagIn(c, stale),
                writes |-> (IF c.headersSent THEN <<429>> ELSE <<>>) \o <<500>>]
    /\ UNCHANGED <<rateLimitStore, conversationMemory, blockEnd, burst, recorded, guardHist, browserVars, solo, uiVars>>

\* chat.js:203-220
handleClearConversationClearsAll(mem, ip, userAgent) == EmptyMap

handleClearConversation(mem, ip, userAgent) ==
    LET sessionId == generateSessionId(ip, userAgent) IN
    IF MapHas(mem, sessionId) THEN MapDelete(mem, sessionId) ELSE mem

ClearConversation(ip, userAgent, t) ==
    /\ t >= now
    /\ now' = t
    /\ conversationMemory' = handleClearConversation(conversationMemory, ip, userAgent)
    /\ stale' = StaleAfterClear(generateSessionId(ip, userAgent))
    /\ last' = [op |-> "clear", ip |-> ip, sessionId |-> generateSessionId(ip, userAgent),
                had |-> MapHas(conversationMemory, generateSessionId(ip, userAgent)),
                writes |-> <<200>>]
    /\ UNCHANGED <<rateLimitStore, inflight, blockEnd, burst, recorded, guardHist, browserVars, solo, uiVars>>

Next ==
    \/ \E ip \in ChatIPs, ua \in UserAgents, m \in ChatMessages, md \in RequestModels,
          t \in ChatInstants : ChatRequest(ip, ua, m, md, t)
    \/ \E c \in BagToSet(inflight), resp \in AIResponses, cleanup \in BOOLEAN,
          t \in ChatInstants : ChatReply(c, resp, cleanup, t)
    \/ \E c \in BagToSet(inflight), t \in ChatInstants : ChatError(c, t)
    \/ \E ip \in ChatIPs, ua \in UserAgents, t \in ChatInstants : ClearConversation(ip, ua, t)

Spec == Init /\ [][Next]_vars

(***************************************************************************)
(* Idle sessions: the chat route over a clock that passes                  *)
(* MEMORY_CLEANUP_INTERVAL, with three browsers behind one address.        *)
(***************************************************************************)
MaxIdleLate == 1

\* The first instants, and those just after MEMORY_CLEANUP_INTERVAL
IdleInstants ==
    (0..MaxJitter) \cup {MEMORY_CLEANUP_INTERVAL + f : f \in 1..MaxIdleLate}

IdleUserAgents == UserAgents \cup {<<"O", "p">>}

IdleMessages == {JsString(<<"h", "i">>)}

\* Each browser holds one exchange, and the requests come one after another.
IdleRequest(ip, userAgent, message, model, t) ==
    /\ inflight = EmptyBag
    /\ SessionLength(generateSessionId(ip, userAgent)) = 0
    /\ ChatRequest(ip, userAgent, message, model, t)

IdleNext ==
    \/ \E ip \in ChatIPs, ua \in IdleUserAgents, m \in IdleMessages, md \in RequestModels,
          t \in IdleInstants : IdleRequest(ip, ua, m, md, t)
    \/ \E c \in BagToSet(inflight), resp \in AIResponses, cleanup \in BOOLEAN,
          t \in IdleInstants : ChatReply(c, resp, cleanup, t)
    \/ \E c \in BagToSet(inflight), t \in IdleInstants : ChatError(c, t)

SpecIdle == Init /\ [][IdleNext]_vars

(***************************************************************************)
(* Clears: two browsers behind one address that chat and clear, a clear    *)
(* arriving also while a request of either waits for its AI call.          *)
(***************************************************************************)
ClearInstants == 0..MaxJitter

ClearNext ==
    \/ \E ip \in ChatIPs, ua \in UserAgents, m \in IdleMessages, md \in RequestModels,
          t \in ClearInstants : IdleRequest(ip, ua, m, md, t)
    \/ \E c \in BagToSet(inflight), resp \in AIResponses, cleanup \in BOOLEAN,
          t \in ClearInstants : ChatReply(c, resp, cleanup, t)
    \/ \E c \in BagToSet(inflight), t \in ClearInstants : ChatError(c, t)
    \/ \E ip \in ChatIPs, ua \in UserAgents, t \in ClearInstants : ClearConversation(ip, ua, t)

SpecClear == Init /\ [][ClearNext]_vars

(***************************************************************************)
(* Sanitization: validateMessageMiddleware on request bodies put together  *)
(* from the pieces its patterns look for                                   *)
(***************************************************************************)
MaxFragments == 3

Fragments ==
    {<<"j","a","v","a">>, <<"s","c","r","i","p","t",":">>,
     <<"J","a","v","a","S","c","r","i","p","t",":">>,
     <<"<">>, <<">">>, <<NUL>>, <<"o","n">>, <<"c","l","i","c","k","=">>, <<"x">>, <<" ">>}

RECURSIVE Texts(_)
Texts(n) == IF n = 0 THEN {<<>>}
            ELSE Texts(n - 1) \cup {t \o f : t \in Texts(n - 1), f \in Fragments}

\* A text of n characters
LongText(n) == [i \in 1..n |-> "x"]

RequestBodies ==
    {JsString(t) : t \in Texts(MaxFragments)}
        \cup {JsString(LongText(maxMessageLength + 1)), JsUndefined, JsObject}

\* Every variable but last, as Init leaves it
QuietInit ==
    /\ now = 0
    /\ rateLimitStore = EmptyMap
    /\ conversationMemory = EmptyMap
    /\ inflight = EmptyBag
    /\ blockEnd = [ip \in IPs |-> 0]
    /\ burst = [ip \in IPs |-> NoBurst]
    /\ recorded = EmptyMap
    /\ HistInit
    /\ BrowserInit

\* A request whose body has been parsed and that reached the middleware
SanitizeInit ==
    /\ QuietInit
    /\ \E message \in RequestBodies : last = [op |-> "body", message |-> message]

\* security.js:63-73: the 400, or req.sanitizedMessage and next()
ValidateMessage ==
    LET validation == validateAndSanitizeMessage(last.message) IN
    /\ last.op = "body"
    /\ last' = [op |-> "validate", message |-> last.message, validation |-> validation,
                writes |-> IF validation.isValid THEN <<>> ELSE <<400>>,
                next |-> validation.isValid]
    /\ UNCHANGED <<now, rateLimitStore, conversationMemory, inflight, blockEnd, burst,
                   recorded, guardHist, browserVars, stale, solo, uiVars>>

SanitizeNext == ValidateMessage

SpecSanitize == SanitizeInit /\ [][SanitizeNext]_vars

(***************************************************************************)
(* Concurrent requests of one session.  The browser has had                *)
(* MAX_CONVERSATION_LENGTH - 1 exchanges, all but MaxConcRequests of       *)
(* maxRequests requests in the running window: the turns the next requests *)
(* record reach the limit of addToConversationHistory, and the rate        *)
(* limiter bounds their number.  All of it happens within one millisecond. *)
(***************************************************************************)
MaxConcRequests == 3

ConcIP == <<":", ":", "1">>

ConcUserAgent == <<"M", "o", "z">>

ConcSession == generateSessionId(ConcIP, ConcUserAgent)

ExchangesDone == MAX_CONVERSATION_LENGTH - 1

RequestsDone == maxRequests - MaxConcRequests

\* The turns of the exchanges done: addToConversationHistory called by
\* chat.js:178-179 for each
EarlierTurns ==
    [i \in 1..(2 * ExchangesDone) |->
        IF i % 2 = 1
        THEN [role |-> "user", content |-> <<"h", "i">>, timestamp |-> 0]
        ELSE [role |-> "assistant", content |-> <<"H", "a", "l", "o">>, timestamp |-> 0]]

ConcMessages == {JsString(<<"a">>), JsString(<<"b">>)}

ConcResponses == [shape : {"candidates.parts"}, text : {<<"X">>, <<"Y">>}]

ConcInstants == {0}

ConcInit ==
    /\ now = 0
    /\ rateLimitStore =
          MapSet(EmptyMap, ConcIP, [count |-> RequestsDone, resetTime |-> 0,
                                    blocked |-> FALSE, blockedUntil |-> 0])
    /\ conversationMemory =
          MapSet(EmptyMap, ConcSession, [messages |-> EarlierTurns, lastActivity |-> 0])
    /\ inflight = EmptyBag
    /\ last = Idle
    /\ blockEnd = [ip \in IPs |-> 0]
    /\ burst = [ip \in IPs |-> NoBurst]
    /\ recorded = EmptyMap
    /\ HistInit
    /\ BrowserInit

ConcRequest(ip, userAgent, message, model, t) ==
    /\ ReachesHandler(ip, message, t) => BagCardinality(inflight) < MaxInFlight
    /\ ChatRequestStep(ip, userAgent, message, model, t)

ConcNext ==
    \/ \E m \in ConcMessages, md \in RequestModels, t \in ConcInstants :
          ConcRequest(ConcIP, ConcUserAgent, m, md, t)
    \/ \E c \in BagToSet(inflight), resp \in ConcResponses, cleanup \in BOOLEAN,
          t \in ConcInstants : ChatReply(c, resp, cleanup, t)
    \/ \E c \in BagToSet(inflight), t \in ConcInstants : ChatError(c, t)
    \/ \E t \in ConcInstants : ClearConversation(ConcIP, ConcUserAgent, t)

SpecConc == ConcInit /\ [][ConcNext]_vars

(***************************************************************************)
(* An outage of the AI service: the requests that passed the middlewares   *)
(* keep reaching handleChatRequest, and from OutageStart on every AI call  *)
(* rejects.  Requests keep arriving and every AI call settles (weak        *)
(* fairness); as long as calls can resolve, the branch of chat.js:182 is   *)
(* taken again and again (strong fairness).                                *)
(***************************************************************************)
OutageStart == MEMORY_CLEANUP_INTERVAL

\* chat.js:149-172 for a request that rateLimitMiddleware and
\* validateMessageMiddleware passed on
HandleChatRequest(ip, userAgent, sanitizedMessage, model, t) ==
    LET sid == generateSessionId(ip, userAgent)
        h   == handleChatRequestStart(conversationMemory, ip, userAgent,
                                      sanitizedMessage, model, FALSE, t)
    IN
    /\ t >= now
    /\ BagCardinality(inflight) < MaxInFlight
    /\ SessionLength(sid) + 2 * InFlightOf(sid) + 2 <= MaxChatTurns
    /\ now' = t
    /\ conversationMemory' = h.mem
    /\ inflight' = inflight (+) SetToBag({h.call})
    /\ last' = [op |-> "handle", ip |-> ip, sessionId |-> sid]
    /\ UNCHANGED <<rateLimitStore, blockEnd, burst, recorded, guardHist, browserVars, stale, solo, uiVars>>

\* The AI call resolves: the service is up
OutageReply(c, resp, cleanup, t) ==
    /\ t < OutageStart
    /\ ChatReply(c, resp, cleanup, t)

OutageArrive ==
    \E ip \in ChatIPs, ua \in UserAgents, md \in RequestModels, t \in IdleInstants :
        HandleChatRequest(ip, ua, <<"h", "i">>, md, t)

OutageSettle ==
    \/ \E c \in BagToSet(inflight), resp \in AIResponses, cleanup \in BOOLEAN,
          t \in IdleInstants : OutageReply(c, resp, cleanup, t)
    \/ \E c \in BagToSet(inflight), t \in IdleInstants : ChatError(c, t)

OutageCleanup ==
    \E c \in BagToSet(inflight), resp \in AIResponses, t \in IdleInstants :
        OutageReply(c, resp, TRUE, t)

OutageNext == OutageArrive \/ OutageSettle

SpecOutage ==
    /\ Init
    /\ [][OutageNext]_vars
    /\ WF_vars(OutageArrive)
    /\ WF_vars(OutageSettle)
    /\ SF_vars(OutageCleanup)

(***************************************************************************)
(* public/js/rateLimit.js: the RateLimiter of the browser, as              *)
(* initializeApp configures it (part_004:41-44)                            *)
(***************************************************************************)
clientMaxRequests == 5

timeWindow == 60000

\* The two messages of a denial (rateLimit.js:35 and rateLimit.js:51)
MessageRemaining == "Terlalu banyak pesan. Coba lagi dalam N detik."

MessageOneMinute == "Terlalu banyak pesan. Coba lagi dalam 1 menit."

\* rateLimit.js:22-58.  The result carries the fields of the RateLimiter
\* after the call and what the call returned.
checkRateLimitAdmitsOneMore(reqs, blocked, until, t) ==
    LET filtered == SelectSeq(reqs, LAMBDA timestamp : t - timestamp < timeWindow) IN
    IF blocked /\ t < until
    THEN [requests |-> filtered, isBlocked |-> blocked, blockUntil |-> until,
          allowed |-> FALSE, message |-> MessageRemaining]
    ELSE LET lifted == blocked /\ t >= until
             kept   == IF lifted THEN <<>> ELSE filtered
         IN IF Len(kept) > clientMaxRequests
            THEN [requests |-> kept, isBlocked |-> TRUE, blockUntil |-> t + timeWindow,
                  allowed |-> FALSE, message |-> MessageOneMinute]
            ELSE [requests |-> Append(kept, t),
                  isBlocked |-> IF lifted THEN FALSE ELSE blocked, blockUntil |-> until,
                  allowed |-> TRUE, message |-> ""]

checkRateLimitLateRelease(reqs, blocked, until, t) ==
    LET filtered == SelectSeq(reqs, LAMBDA timestamp : t - timestamp < timeWindow) IN
    IF blocked /\ t <= until
    THEN [requests |-> filtered, isBlocked |-> blocked, blockUntil |-> until,
          allowed |-> FALSE, message |-> MessageRemaining]
    ELSE LET lifted == blocked /\ t >= until
             kept   == IF lifted THEN <<>> ELSE filtered
         IN IF Len(kept) >= clientMaxRequests
            THEN [requests |-> kept, isBlocked |-> TRUE, blockUntil |-> t + timeWindow,
                  allowed |-> FALSE, message |-> MessageOneMinute]
            ELSE [requests |-> Append(kept, t),
                  isBlocked |-> IF lifted THEN FALSE ELSE blocked, blockUntil |-> until,
                  allowed |-> TRUE, message |-> ""]

checkRateLimit(reqs, blocked, until, t) ==
    LET filtered == SelectSeq(reqs, LAMBDA timestamp : t - timestamp < timeWindow) IN
    IF blocked /\ t < until
    THEN [requests |-> filtered, isBlocked |-> blocked, blockUntil |-> until,
          allowed |-> FALSE, message |-> MessageRemaining]
    ELSE LET lifted == blocked /\ t >= until
             kept   == IF lifted THEN <<>> ELSE filtered
         IN IF Len(kept) >= clientMaxRequests
            THEN [requests |-> kept, isBlocked |-> TRUE, blockUntil |-> t + timeWindow,
                  allowed |-> FALSE, message |-> MessageOneMinute]
            ELSE [requests |-> Append(kept, t),
                  isBlocked |-> IF lifted THEN FALSE ELSE blocked, blockUntil |-> until,
                  allowed |-> TRUE, message |-> ""]

(***************************************************************************)
(* The browser's RateLimiter under submits around the ends of the windows  *)
(***************************************************************************)
MaxClientWindows == 2

\* The start of each window, the instants after it and the one before it
ClientInstants ==
    {c * timeWindow + f : c \in 0..MaxClientWindows, f \in 0..MaxJitter}
        \cup {c * timeWindow - 1 : c \in 1..MaxClientWindows}

\* The cooldown that is running after a call at t that returned r: a denial
\* for reaching the limit starts one at t; a call timeWindow or more after the
\* start of the running one ends it.
CooldownAfter(cd, r, t) ==
    IF ~r.allowed /\ r.message = MessageOneMinute THEN [open |-> TRUE, at |-> t]
    ELSE IF cd.open /\ t >= cd.at + timeWindow THEN NoCooldown
    ELSE cd

\* A submit at time t reaches rateLimiter.checkRateLimit() (part_004:59).
CheckRateLimit(t) ==
    LET r == checkRateLimit(requests, isBlocked, blockUntil, t) IN
    /\ t >= now
    /\ now' = t
    /\ requests' = r.requests
    /\ isBlocked' = r.isBlocked
    /\ blockUntil' = r.blockUntil
    /\ allowedLog' =
          LET recent == SelectSeq(allowedLog, LAMBDA a : t - a < timeWindow) IN
          IF r.allowed THEN Append(recent, t) ELSE recent
    /\ cooldown' = CooldownAfter(cooldown, r, t)
    /\ last' = [op |-> "check", allowed |-> r.allowed, message |-> r.message,
                prevRequests |-> requests, cooldown |-> cooldown]
    /\ UNCHANGED <<rateLimitStore, conversationMemory, inflight, blockEnd, burst, recorded,
                   guardHist, storageVars, stale, solo, uiVars>>

ClientNext == \E t \in ClientInstants : CheckRateLimit(t)

SpecClient == Init /\ [][ClientNext]_vars

(***************************************************************************)
(* Browser: ChatStorage (part_006), the chat history kept in localStorage  *)
(*                                                                         *)
(* The item under storageKey is written by saveChatHistory only, as the    *)
(* JSON text of {messages, timestamp, version}; every field of it is a     *)
(* string, a finite number or an array of such objects, which              *)
(* JSON.stringify and JSON.parse carry over unchanged, so the item is      *)
(* held here as the value its text parses to.  The room left in           *)
(* localStorage is counted in messages: setItem throws QuotaExceededError  *)
(* when the history it is given holds more messages than the quota.        *)
(***************************************************************************)
ttlHours == 6

maxMessages == 50

isExpiredAtTtl(timestamp, t) == t - timestamp >= ttlHours * 60 * 60 * 1000

\* part_006:29-32
isExpired(timestamp, t) == t - timestamp > ttlHours * 60 * 60 * 1000

\* part_006:115-121
clearChatHistory(item) == NoItem

\* part_006:38-55.  Returns the item after the call and the array returned.
getChatHistory(item, t) ==
    IF ~item.present THEN [item |-> item, result |-> <<>>]
    ELSE IF isExpired(item.data.timestamp, t)
         THEN [item |-> clearChatHistory(item), result |-> <<>>]
         ELSE [item |-> item, result |-> item.data.messages]

\* part_006:78: the retry keeps the last 25 messages
retryMessages == 25

\* part_006:128: clearOldMessages keeps the last 15 messages
recentMessages == 15

\* localStorage.setItem(storageKey, JSON.stringify(data)) within the quota
QuotaExceeded(data, quota) == Len(data.messages) > quota

saveChatHistoryKeepsOldest(item, messages, t, quota) ==
    [present |-> TRUE,
     data |-> [messages |-> Take(messages, maxMessages), timestamp |-> t, version |-> "1.0"]]

\* part_006:61-81 and 126-130.  The item after the call.  When setItem throws
\* QuotaExceededError the catch block runs clearOldMessages, a save of the
\* last 15 stored messages, and then saves the last 25 of its own argument.
RECURSIVE saveChatHistory(_, _, _, _)
saveChatHistory(item, messages, t, quota) ==
    LET data == [messages |-> SliceLast(messages, maxMessages), timestamp |-> t,
                 version |-> "1.0"]
    IN IF ~QuotaExceeded(data, quota)
       THEN [present |-> TRUE, data |-> data]
       ELSE LET h == getChatHistory(item, t)
                cleared == saveChatHistory(h.item, SliceLast(h.result, recentMessages),
                                           t, quota)
            IN saveChatHistory(cleared, SliceLast(messages, retryMessages), t, quota)

\* part_006:108-110: msg_<Date.now()>_<random>
generateMessageId(t, random) == [at |-> t, random |-> random]

\* part_006:89-102.  Returns the item after the call, the array that
\* getChatHistory returned and the message pushed onto it.
addMessage(item, content, sender, type, random, t, quota) ==
    LET h == getChatHistory(item, t)
        newMessage == [id |-> generateMessageId(t, random), content |-> content,
                       sender |-> sender, type |-> type, timestamp |-> t]
    IN [item |-> saveChatHistory(h.item, Append(h.result, newMessage), t, quota),
        result |-> h.result, newMessage |-> newMessage]

\* A JSON text handed to importChatHistory, by what JSON.parse makes of it:
\* a SyntaxError, null, or an object whose messages property is missing, a
\* string or an array.
JsNull == [type |-> "null"]

JsArray(items) == [type |-> "array", items |-> items]

JsonParse(text) == IF text.parses THEN [threw |-> FALSE, value |-> text.value]
                   ELSE [threw |-> TRUE]

\* data.messages && Array.isArray(data.messages); reading a property of null
\* throws a TypeError.
HasMessagesArray(data) == data.messages.type = "array"

\* part_006:192-203.  Returns the item after the call and the boolean returned.
importChatHistory(item, jsonData, t, quota) ==
    LET parsed == JsonParse(jsonData) IN
    IF parsed.threw \/ parsed.value.type = "null" THEN [item |-> item, result |-> FALSE]
    ELSE IF HasMessagesArray(parsed.value)
         THEN [item |-> saveChatHistory(item, parsed.value.messages.items, t, quota),
               result |-> TRUE]
         ELSE [item |-> item, result |-> FALSE]

(***************************************************************************)
(* ChatStorage under page loads and messages around the end of the TTL     *)
(***************************************************************************)
MaxStoragePeriods == 1

MaxStored == 3

\* The start of each period of ttlHours and the instants after it
StorageInstants ==
    {c * (ttlHours * 60 * 60 * 1000) + f : c \in 0..MaxStoragePeriods, f \in 0..MaxJitter}

\* What chatUtils.addMessage saves: the user's text and the bot's reply
StoredTexts == {[content |-> <<"h", "i">>, sender |-> "user"],
                [content |-> <<"H", "a", "l", "o">>, sender |-> "bot"]}

StorageRandoms == {"k3x"}

\* The room in localStorage at a setItem: for the whole history, or for the
\* history of the retry only
StorageQuotas == {maxMessages, retryMessages}

StoredLength == IF localStorage.present THEN Len(localStorage.data.messages) ELSE 0

\* A page load: new ChatStorage() runs cleanup(), and loadChatHistory reads
\* the history (part_006:13, chatUtils.js:109).
GetChatHistory(t) ==
    LET h == getChatHistory(localStorage, t) IN
    /\ t >= now
    /\ now' = t
    /\ localStorage' = h.item
    /\ last' = [op |-> "get", prev |-> localStorage, got |-> h.result]
    /\ UNCHANGED <<rateLimitStore, conversationMemory, inflight, blockEnd, burst, recorded,
                   guardHist, limiterVars, storageLog, stale, solo, uiVars>>

\* chatUtils.js:50: a displayed message is saved.
AddMessageStep(text, random, t, quota) ==
    LET a == addMessage(localStorage, text.content, text.sender, "normal", random, t, quota) IN
    /\ t >= now
    /\ now' = t
    /\ localStorage' = a.item
    /\ last' = [op |-> "add", prev |-> localStorage, got |-> a.result,
                newMessage |-> a.newMessage, quota |-> quota]
    /\ UNCHANGED <<rateLimitStore, conversationMemory, inflight, blockEnd, burst, recorded,
                   guardHist, limiterVars, stale, solo, uiVars>>

AddMessage(text, random, t, quota) ==
    /\ StoredLength < MaxStored
    /\ AddMessageStep(text, random, t, quota)
    /\ UNCHANGED storageLog

\* chatUtils.js:167: the user clears the chat.
ClearChatHistory(t) ==
    /\ t >= now
    /\ now' = t
    /\ localStorage' = clearChatHistory(localStorage)
    /\ last' = [op |-> "clearHistory", prev |-> localStorage]
    /\ UNCHANGED <<rateLimitStore, conversationMemory, inflight, blockEnd, burst, recorded,
                   guardHist, limiterVars, storageLog, stale, solo, uiVars>>

StorageNext ==
    \E t \in StorageInstants :
        \/ GetChatHistory(t)
        \/ \E text \in StoredTexts, random \in StorageRandoms, quota \in StorageQuotas :
              AddMessage(text, random, t, quota)
        \/ ClearChatHistory(t)

SpecStorage == Init /\ [][StorageNext]_vars

(***************************************************************************)
(* ChatStorage at its size limit: a history one short of maxMessages, then *)
(* messages and imports, with room for the whole history or for the        *)
(* history of the retry only.                                              *)
(***************************************************************************)
MaxStorageCalls == 3

StoredBefore == maxMessages - 1

\* A message of an earlier visit or of an imported file: the i-th of its list
ListedMessage(i, random) ==
    [id |-> generateMessageId(i, random),
     content |-> IF i % 2 = 1 THEN <<"h", "i">> ELSE <<"H", "a", "l", "o">>,
     sender |-> IF i % 2 = 1 THEN "user" ELSE "bot", type |-> "normal", timestamp |-> 0]

ListedMessages(n, random) == [i \in 1..n |-> ListedMessage(i, random)]

ImportTexts ==
    {[parses |-> FALSE],
     [parses |-> TRUE, value |-> JsNull],
     [parses |-> TRUE, value |-> [type |-> "object", messages |-> JsUndefined]],
     [parses |-> TRUE, value |-> [type |-> "object", messages |-> JsString(<<"x">>)]],
     [parses |-> TRUE, value |-> [type |-> "object", messages |-> JsArray(<<>>)]],
     [parses |-> TRUE,
      value |-> [type |-> "object", messages |-> JsArray(ListedMessages(2, "imp"))]],
     [parses |-> TRUE,
      value |-> [type |-> "object",
                 messages |-> JsArray(ListedMessages(maxMessages + 2, "imp"))]]}

\* A save before the TTL of the history has passed, and one after it
LimitInstants == {0, ttlHours * 60 * 60 * 1000 + 1}

\* The history after a call that handed the messages given to saveChatHistory
LogAfter(given) ==
    [calls |-> storageLog.calls + 1,
     added |-> SliceLast(storageLog.added \o given, maxMessages)]

LimitInit ==
    /\ now = 0
    /\ rateLimitStore = EmptyMap
    /\ conversationMemory = EmptyMap
    /\ inflight = EmptyBag
    /\ last = Idle
    /\ blockEnd = [ip \in IPs |-> 0]
    /\ burst = [ip \in IPs |-> NoBurst]
    /\ recorded = EmptyMap
    /\ HistInit
    /\ LimiterInit
    /\ PageInit
    /\ localStorage = [present |-> TRUE,
                       data |-> [messages |-> ListedMessages(StoredBefore, "old"),
                                 timestamp |-> 0, version |-> "1.0"]]
    /\ storageLog = [calls |-> 0, added |-> ListedMessages(StoredBefore, "old")]

LimitAddMessage(text, random, t, quota) ==
    /\ storageLog.calls < MaxStorageCalls
    /\ AddMessageStep(text, random, t, quota)
    /\ storageLog' = LogAfter(<<last'.newMessage>>)

\* importChatHistory(jsonData) on the page's ChatStorage
ImportChatHistory(jsonData, t, quota) ==
    LET r == importChatHistory(localStorage, jsonData, t, quota) IN
    /\ storageLog.calls < MaxStorageCalls
    /\ t >= now
    /\ now' = t
    /\ localStorage' = r.item
    /\ storageLog' = LogAfter(IF r.result THEN jsonData.value.messages.items ELSE <<>>)
    /\ last' = [op |-> "import", prev |-> localStorage, jsonData |-> jsonData,
                result |-> r.result, quota |-> quota]
    /\ UNCHANGED <<rateLimitStore, conversationMemory, inflight, blockEnd, burst, recorded,
                   guardHist, limiterVars, stale, solo, uiVars>>

LimitNext ==
    \E t \in LimitInstants, quota \in StorageQuotas :
        \/ \E text \in StoredTexts, random \in StorageRandoms :
              LimitAddMessage(text, random, t, quota)
        \/ \E jsonData \in ImportTexts : ImportChatHistory(jsonData, t, quota)

SpecLimit == LimitInit /\ [][LimitNext]_vars

(***************************************************************************)
(* ChatStorage under exports and imports: the history is added to, read,   *)
(* cleared, replaced by an imported text, and exported and imported again. *)
(* The text exportChatHistory returns holds the array getChatHistory       *)
(* returned, whose elements were read from the stored item with JSON.parse *)
(* and are written and read again unchanged; it is held as what JSON.parse *)
(* makes of it, an object with messages, exportDate and version.           *)
(***************************************************************************)
MaxImports == 2

\* An exportChatHistory that lists the newest message first
exportChatHistoryNewestFirst(item, t) ==
    LET h == getChatHistory(item, t)
        messages == [i \in 1..Len(h.result) |-> h.result[Len(h.result) + 1 - i]]
    IN [item |-> h.item,
        result |-> [parses |-> TRUE,
                    value |-> [type |-> "object", messages |-> JsArray(messages),
                               exportDate |-> [type |-> "string", date |-> t],
                               version |-> JsString(<<"1", ".", "0">>)]]]

\* part_006:177-185.  Returns the item after the call (getChatHistory removes
\* an expired one) and the text returned.
exportChatHistory(item, t) ==
    LET h == getChatHistory(item, t)
        messages == h.result
    IN [item |-> h.item,
        result |-> [parses |-> TRUE,
                    value |-> [type |-> "object", messages |-> JsArray(messages),
                               exportDate |-> [type |-> "string", date |-> t],
                               version |-> JsString(<<"1", ".", "0">>)]]]

\* The room in localStorage when the item stored is written again.  setItem
\* replaces the item: one of the size of the item stored fits, whatever else
\* the origin holds (the rate limiter's key, securityUtils.js:193).
RoomFor(item) ==
    {quota \in StorageQuotas \cup {IF item.present THEN Len(item.data.messages) ELSE 0} :
        item.present => quota >= Len(item.data.messages)}

\* importChatHistory(exportChatHistory()): the export at time t, the import
\* at a time not before it.
ExportImport(t, later, quota) ==
    LET e == exportChatHistory(localStorage, t)
        r == importChatHistory(e.item, e.result, later, quota)
    IN /\ t >= now
       /\ later >= t
       /\ now' = later
       /\ quota \in RoomFor(e.item)
       /\ localStorage' = r.item
       /\ last' = [op |-> "exportImport", prev |-> localStorage, at |-> t,
                   exported |-> e.result, result |-> r.result, quota |-> quota]
       /\ UNCHANGED <<rateLimitStore, conversationMemory, inflight, blockEnd, burst, recorded,
                      guardHist, limiterVars, storageLog, stale, solo, uiVars>>

\* importChatHistory(jsonData) with the text of a file
ImportFile(jsonData, t, quota) ==
    /\ storageLog.calls < MaxImports
    /\ ImportChatHistory(jsonData, t, quota)

\* The start, the last instant at which a history saved at the start has not
\* expired, and the first at which it has
RoundInstants == {0, ttlHours * 60 * 60 * 1000, ttlHours * 60 * 60 * 1000 + 1}

RoundNext ==
    \E t \in RoundInstants :
        \/ GetChatHistory(t)
        \/ \E text \in StoredTexts, random \in StorageRandoms, quota \in StorageQuotas :
              AddMessage(text, random, t, quota)
        \/ ClearChatHistory(t)
        \/ \E jsonData \in ImportTexts, quota \in StorageQuotas : ImportFile(jsonData, t, quota)
        \/ \E later \in RoundInstants, quota \in RoomFor(exportChatHistory(localStorage, t).item) :
              ExportImport(t, later, quota)

SpecRound == Init /\ [][RoundNext]_vars

(***************************************************************************)
(* ChatStorage when localStorage has little or no room: saveChatHistory    *)
(* call by call.  Every failed setItem makes two further calls of          *)
(* saveChatHistory from the catch block, one through clearOldMessages and  *)
(* one directly, so the calls nest until setItem succeeds or the stack of  *)
(* the engine is full.  What a full stack does depends on where the engine *)
(* notices it: at the entry of the nested call, whose RangeError leaves    *)
(* every catch block on the stack and reaches the caller of the outermost  *)
(* saveChatHistory, or at a call inside a try block (slice, stringify,     *)
(* setItem), whose RangeError that call's own catch block takes and drops, *)
(* not being a QuotaExceededError.                                         *)
(***************************************************************************)
\* The calls of saveChatHistory that the stack of the engine has room for
MaxCallDepth == 4

\* The element of a set of one element; used to name the result of a call
\* that is made once
Only(S) == CHOOSE x \in S : TRUE

\* part_006:61-81 and 126-130 with room for room nested calls.  Returns the
\* item after the call, whether the call threw, and the number of times
\* setItem was called.  inTry: a full stack is noticed inside the try block
\* of the innermost call.  cleared is what the call made through
\* clearOldMessages returns, retried what the retry returns.
RECURSIVE saveChatHistoryOnStack(_, _, _, _, _, _)
saveChatHistoryOnStack(item, messages, t, quota, room, inTry) ==
    LET data == [messages |-> SliceLast(messages, maxMessages), timestamp |-> t,
                 version |-> "1.0"]
    IN IF room = 0 THEN [item |-> item, thrown |-> TRUE, attempts |-> 0]
       ELSE IF room = 1 /\ inTry THEN [item |-> item, thrown |-> FALSE, attempts |-> 0]
       ELSE IF ~QuotaExceeded(data, quota)
       THEN [item |-> [present |-> TRUE, data |-> data], thrown |-> FALSE, attempts |-> 1]
       ELSE Only({IF cleared.thrown
                  THEN [item |-> cleared.item, thrown |-> TRUE,
                        attempts |-> 1 + cleared.attempts]
                  ELSE Only({[item |-> retried.item, thrown |-> retried.thrown,
                              attempts |-> 1 + cleared.attempts + retried.attempts] :
                             retried \in {saveChatHistoryOnStack(
                                              cleared.item, fewer, t, quota, room - 1,
                                              inTry)}}) :
                  fewer \in {SliceLast(messages, retryMessages)},
                  cleared \in {Only({saveChatHistoryOnStack(
                                        h.item, SliceLast(h.result, recentMessages),
                                        t, quota, room - 1, inTry) :
                                     h \in {getChatHistory(item, t)}})}})

\* The room in localStorage at the setItem calls of one saveChatHistory: none
\* at all (a browser that gives the page no storage, or a full one), room
\* for an item without messages, for one message, or for the whole history
ScarceQuotas == {-1, 0, 1, maxMessages}

\* part_006:89-102 on a stack with room for MaxCallDepth nested calls of
\* saveChatHistory.  Returns what saveChatHistoryOnStack returns, and the
\* array saved.
addMessageOnStack(item, content, sender, type, random, t, quota, inTry) ==
    LET newMessage == [id |-> generateMessageId(t, random), content |-> content,
                       sender |-> sender, type |-> type, timestamp |-> t]
    IN Only({Only({[item |-> saved.item, thrown |-> saved.thrown,
                    attempts |-> saved.attempts, got |-> h,
                    messages |-> Append(h.result, newMessage)] :
                   saved \in {saveChatHistoryOnStack(h.item, Append(h.result, newMessage),
                                                     t, quota, MaxCallDepth, inTry)}}) :
             h \in {getChatHistory(item, t)}})

\* storage.addMessage with the given room in localStorage
ScarceAddMessage(text, random, t, quota, inTry) ==
    LET saved == addMessageOnStack(localStorage, text.content, text.sender, "normal",
                                   random, t, quota, inTry)
        h == saved.got
        newMessage == saved.messages[Len(saved.messages)]
    IN /\ StoredLength < MaxStored
       /\ t >= now
       /\ now' = t
       /\ localStorage' = saved.item
       /\ last' = [op |-> "save", prev |-> localStorage, quota |-> quota, inTry |-> inTry,
                   thrown |-> saved.thrown, attempts |-> saved.attempts,
                   saves |-> IF quota \in StorageQuotas
                             THEN saved.item = saveChatHistory(h.item,
                                                   Append(h.result, newMessage), t, quota)
                             ELSE TRUE]
       /\ UNCHANGED <<rateLimitStore, conversationMemory, inflight, blockEnd, burst, recorded,
                      guardHist, limiterVars, storageLog, stale, solo, uiVars>>

ScarceNext ==
    \/ \E text \in StoredTexts, random \in StorageRandoms, t \in StorageInstants,
          quota \in ScarceQuotas, inTry \in BOOLEAN :
             ScarceAddMessage(text, random, t, quota, inTry)
    \/ \E t \in StorageInstants : ClearChatHistory(t)

SpecScarce == Init /\ [][ScarceNext]_vars

(***************************************************************************)
(* End of conversation: one browser that chats, one request at a time as   *)
(* its page allows, and presses the end-conversation button                *)
(***************************************************************************)
\* part_004:47-102: a submit of the page reaches the server.
EndRequest(message, model, t) ==
    /\ inflight = EmptyBag
    /\ ChatRequest(ConcIP, ConcUserAgent, message, model, t)

\* part_004:166-171: the click on the end-conversation button, confirmed.
\* chatUtils.clearChatHistory() removes the stored history and empties the
\* chat box; the notice added after it is not stored.  The button is disabled
\* while a request of the page waits for its answer (chatUtils.js:196-198).
EndConversation(t) ==
    /\ inflight = EmptyBag
    /\ t >= now
    /\ now' = t
    /\ localStorage' = clearChatHistory(localStorage)
    /\ last' = [op |-> "end"]
    /\ UNCHANGED <<rateLimitStore, conversationMemory, inflight, blockEnd, burst, recorded,
                   guardHist, limiterVars, storageLog, stale, solo, uiVars>>

EndNext ==
    \/ \E m \in IdleMessages, md \in RequestModels, t \in ClearInstants : EndRequest(m, md, t)
    \/ \E c \in BagToSet(inflight), resp \in AIResponses, cleanup \in BOOLEAN,
          t \in ClearInstants : ChatReply(c, resp, cleanup, t)
    \/ \E c \in BagToSet(inflight), t \in ClearInstants : ChatError(c, t)
    \/ \E t \in ClearInstants : EndConversation(t)

SpecEnd == Init /\ [][EndNext]_vars

(***************************************************************************)
(* The chat page (part_004): the submit handler, the cancel button of a    *)
(* loading indicator and the end-conversation button, over ChatUtils,      *)
(* ApiClient, the page's RateLimiter and ChatStorage.                      *)
(*                                                                         *)
(* A submit runs the handler up to its await of apiClient.sendMessage in   *)
(* one task.  The rest of sendMessage and of the handler run as microtasks *)
(* of the task that settles the fetch: the one that delivers the answer or *)
(* the failure, or, for an aborted fetch, the one that called abort(),     *)
(* which rejects the pending promise of fetch or of response.json() at     *)
(* once; no other event is handled in between.  The server is not part of  *)
(* this specification: what a fetch ends in is an input.                   *)
(***************************************************************************)
MaxSubmits == 2

\* ChatUtils.addMessage called without a type (chatUtils.js:27)
NoType == "null"

\* An isInputDisabled that never reports the input as disabled
isInputDisabledNever(processing) == FALSE

\* chatUtils.js:227-229
isInputDisabled(processing) == processing

\* chatUtils.js:27-54: ChatUtils.addMessage, which shows the message and then
\* stores it; loading messages and notifications are not stored.  Returns
\* the item after the call and whether storage.addMessage threw out of it.
chatAddMessage(item, text, sender, type, random, t, quota, inTry) ==
    IF type # "loading" /\ type # "model-notification"
    THEN LET a == addMessageOnStack(item, text, sender,
                                    IF type = NoType THEN "normal" ELSE type,
                                    random, t, quota, inTry)
         IN [item |-> a.item, thrown |-> a.thrown]
    ELSE [item |-> item, thrown |-> FALSE]

\* part_004:131: what the catch block of the handler shows
HandlerError == <<"Maaf, terjadi kesalahan. Coba lagi nanti ya.">>

\* part_004:76-95 and part_006:233: a submit that has just passed the checks.
\* Its call of sendMessage waits for the fetch, its loading element is in the
\* chat box, and it has shown nothing yet.
NewSubmit ==
    [settled |-> FALSE, aborted |-> FALSE, loading |-> TRUE, cancelMessageShown |-> FALSE,
     shown |-> <<>>]

\* What sendMessage returns: part_006:258-262, 269-273 and 276-279
Replied(text) == [success |-> TRUE, cancelled |-> FALSE, text |-> text]

Failed(text) == [success |-> FALSE, cancelled |-> FALSE, text |-> text]

Cancelled == [success |-> FALSE, cancelled |-> TRUE, text |-> <<"Request dibatalkan">>]

\* part_006:286-293: the controller it aborts, the field after it and the
\* value returned
cancelCurrentRequest(controller) ==
    [aborted |-> controller, currentController |-> NoController,
     result |-> controller # NoController]

\* A handler that takes the loading element out of the chat box without
\* enabling the input again
CompletedKeepsInputDisabled(pg, id, result, random, t, quota, inTry) ==
    LET sub     == pg.submits[id]
        notice  == ~result.success /\ result.cancelled /\ ~sub.cancelMessageShown
        outcome == IF result.success THEN <<"reply">>
                   ELSE IF notice THEN <<"cancelled">>
                   ELSE IF ~result.cancelled THEN <<"error">>
                   ELSE <<>>
        stored  == result.success \/ ~result.cancelled
        After(caught, item) ==
            [isProcessing |-> pg.isProcessing,
             currentController |-> NoController,
             submits |-> [pg.submits EXCEPT ![id] =
                             [settled |-> TRUE, aborted |-> sub.aborted, loading |-> FALSE,
                              cancelMessageShown |-> sub.cancelMessageShown \/ notice,
                              shown |-> sub.shown \o outcome
                                           \o IF caught THEN <<"error">> ELSE <<>>]],
             item |-> item]
    IN IF ~stored THEN After(FALSE, pg.item)
       ELSE Only({IF a.thrown /\ ~sub.cancelMessageShown
                  THEN After(TRUE, chatAddMessage(a.item, HandlerError, "bot", NoType,
                                                  random, t, quota, inTry).item)
                  ELSE After(FALSE, a.item) :
                  a \in {chatAddMessage(pg.item, result.text, "bot", NoType, random, t,
                                        quota, inTry)}})

\* part_006:249-280 and part_004:102-121: the rest of sendMessage and of the
\* handler of submit id, once its fetch is settled and sendMessage returns
\* result.  sendMessage always returns (its catch takes every exception); the
\* handler's own catch (part_004:122-141) is entered when chatUtils.addMessage
\* throws, which it does after showing its message when the storage throws
\* (chatUtils.js:45, 50).  The error is then no AbortError, and the catch
\* shows the error message unless cancelMessageShown; what that second
\* addMessage throws leaves the handler.
Completed(pg, id, result, random, t, quota, inTry) ==
    LET sub     == pg.submits[id]
        notice  == ~result.success /\ result.cancelled /\ ~sub.cancelMessageShown
        outcome == IF result.success THEN <<"reply">>
                   ELSE IF notice THEN <<"cancelled">>
                   ELSE IF ~result.cancelled THEN <<"error">>
                   ELSE <<>>
        stored  == result.success \/ ~result.cancelled
        After(caught, item) ==
            [isProcessing |-> IF sub.loading THEN FALSE ELSE pg.isProcessing,
             currentController |-> NoController,
             submits |-> [pg.submits EXCEPT ![id] =
                             [settled |-> TRUE, aborted |-> sub.aborted, loading |-> FALSE,
                              cancelMessageShown |-> sub.cancelMessageShown \/ notice,
                              shown |-> sub.shown \o outcome
                                           \o IF caught THEN <<"error">> ELSE <<>>]],
             item |-> item]
    IN IF ~stored THEN After(FALSE, pg.item)
       ELSE Only({IF a.thrown /\ ~sub.cancelMessageShown
                  THEN After(TRUE, chatAddMessage(a.item, HandlerError, "bot", NoType,
                                                  random, t, quota, inTry).item)
                  ELSE After(FALSE, a.item) :
                  a \in {chatAddMessage(pg.item, result.text, "bot", NoType, random, t,
                                        quota, inTry)}})

\* part_006:229 and 288: controller.abort() of the call of submit k, and the
\* microtasks that follow the task: the fetch of a call still waiting is
\* rejected with an AbortError.
AbortHandled(pg, k, random, t, quota, inTry) ==
    IF k = NoController \/ pg.submits[k].settled THEN pg
    ELSE Completed([pg EXCEPT !.submits[k].aborted = TRUE], k, Cancelled, random, t,
                   quota, inTry)

\* The page as a record, for the operators above
Page == [isProcessing |-> isProcessing, currentController |-> currentController,
         submits |-> submits, item |-> localStorage]

PageBecomes(pg) ==
    /\ isProcessing' = pg.isProcessing
    /\ currentController' = pg.currentController
    /\ submits' = pg.submits
    /\ localStorage' = pg.item

\* part_004:47-102: a submit of the form with input in the field, at time t.
\* The handler returns at the first check that fails; a message that passes
\* them is shown, the loading indicator is added (which disables the input,
\* chatUtils.js:268) and sendMessage is called, which aborts the call whose
\* controller it finds (part_006:228-230) and starts a fetch of its own.
\* When a chatUtils.addMessage throws (the storage threw), the handler ends
\* there.  quota and inTry: the room in localStorage and the way of the
\* engine with a full stack during the task.
Submit(input, random, t, quota, inTry) ==
    LET userMessage == Trim(input)
        r           == checkRateLimit(requests, isBlocked, blockUntil, t)
        validation  == validateMessage(userMessage)
        shownUser   == chatAddMessage(localStorage, validation.sanitizedMessage, "user",
                                      NoType, random, t, quota, inTry)
        outcome     == IF isInputDisabled(isProcessing) THEN "ignored"
                       ELSE IF userMessage = <<>> THEN "empty"
                       ELSE IF ~r.allowed THEN "limited"
                       ELSE IF ~validation.isValid THEN "invalid"
                       ELSE IF shownUser.thrown THEN "threw"
                       ELSE "sent"
        checked     == outcome \in {"limited", "invalid", "threw", "sent"}
        id          == Len(submits) + 1
        started     == [isProcessing |-> TRUE,
                        currentController |-> id,
                        submits |-> Append(submits, NewSubmit),
                        item |-> shownUser.item]
    IN /\ outcome = "sent" => Len(submits) < MaxSubmits
       /\ outcome \in {"limited", "threw", "sent"} =>
             Len(getChatHistory(localStorage, t).result) <= MaxSubmits
       /\ t >= now
       /\ now' = t
       /\ requests' = IF checked THEN r.requests ELSE requests
       /\ isBlocked' = IF checked THEN r.isBlocked ELSE isBlocked
       /\ blockUntil' = IF checked THEN r.blockUntil ELSE blockUntil
       /\ allowedLog' =
             LET recent == SelectSeq(allowedLog, LAMBDA a : t - a < timeWindow) IN
             IF ~checked THEN allowedLog
             ELSE IF r.allowed THEN Append(recent, t) ELSE recent
       /\ cooldown' = IF checked THEN CooldownAfter(cooldown, r, t) ELSE cooldown
       /\ PageBecomes(
             CASE outcome = "limited" ->
                      [Page EXCEPT !.item = chatAddMessage(localStorage, <<r.message>>, "bot",
                                                           NoType, random, t, quota,
                                                           inTry).item]
               [] outcome = "threw" -> [Page EXCEPT !.item = shownUser.item]
               [] outcome = "sent" ->
                      AbortHandled(started, currentController, random, t, quota, inTry)
               [] OTHER -> Page)
       /\ last' = [op |-> "submit", outcome |-> outcome, wasProcessing |-> isProcessing,
                   pending |-> {i \in 1..Len(submits) :
                                   ~submits[i].settled /\ ~submits[i].aborted}]
       /\ UNCHANGED <<rateLimitStore, conversationMemory, inflight, blockEnd, burst, recorded,
                      guardHist, storageLog, stale, solo>>

\* The fetch of submit id, not aborted, is settled with result at time t:
\* the answer of the server has arrived, or the request has failed.
FetchSettled(id, result, random, t, quota, inTry) ==
    /\ id \in 1..Len(submits)
    /\ ~submits[id].settled
    /\ ~submits[id].aborted
    /\ t >= now
    /\ now' = t
    /\ \E pg \in {Completed(Page, id, result, random, t, quota, inTry)} : PageBecomes(pg)
    /\ last' = [op |-> "settled", id |-> id, result |-> result]
    /\ UNCHANGED <<rateLimitStore, conversationMemory, inflight, blockEnd, burst, recorded,
                   guardHist, limiterVars, storageLog, stale, solo>>

\* part_004:82-94 (chatUtils.js:256-260): a click on the cancel button of the
\* loading element of submit id, which is in the chat box.
CancelClick(id, random, t, quota, inTry) ==
    LET sub  == submits[id]
        c    == cancelCurrentRequest(currentController)
        show == c.result /\ ~sub.cancelMessageShown
        clicked == [isProcessing |-> IF show THEN FALSE ELSE isProcessing,
                    currentController |-> c.currentController,
                    submits |-> IF show
                                THEN [submits EXCEPT ![id].loading = FALSE,
                                                     ![id].cancelMessageShown = TRUE,
                                                     ![id].shown = Append(@, "cancelled")]
                                ELSE submits,
                    item |-> localStorage]
    IN /\ id \in 1..Len(submits)
       /\ sub.loading
       /\ t >= now
       /\ now' = t
       /\ PageBecomes(AbortHandled(clicked, c.aborted, random, t, quota, inTry))
       /\ last' = [op |-> "cancel", id |-> id, cancelled |-> c.result]
       /\ UNCHANGED <<rateLimitStore, conversationMemory, inflight, blockEnd, burst, recorded,
                      guardHist, limiterVars, storageLog, stale, solo>>

\* part_004:166-171: a click on the end-conversation button, confirmed.  The
\* button is disabled while isProcessing (chatUtils.js:196-198, 218-220).
\* chatUtils.clearChatHistory() removes the stored history and empties the
\* chat box, loading elements included; the notice added is not stored.
EndClick(t) ==
    /\ ~isProcessing
    /\ t >= now
    /\ now' = t
    /\ localStorage' = clearChatHistory(localStorage)
    /\ submits' = [i \in 1..Len(submits) |-> [submits[i] EXCEPT !.loading = FALSE]]
    /\ last' = [op |-> "end"]
    /\ UNCHANGED <<rateLimitStore, conversationMemory, inflight, blockEnd, burst, recorded,
                   guardHist, limiterVars, storageLog, stale, solo, isProcessing,
                   currentController>>

UiInstants == {0, timeWindow}

UiInputs == {<<>>, <<" ">>, <<"a","/","b">>, <<"o","n","x","=">>}

\* What the fetch of a call ends in unless it is aborted: the reply, or an
\* error, which is an answer that is not ok (with its data.error) or a
\* failure of the network (with its message); sendMessage returns the same
\* for both but for the text.
FetchResults == {Replied(<<"Halo!">>), Failed(<<"Failed to fetch">>)}

\* The page has had clientMaxRequests - 1 messages answered in its first
\* millisecond, and the conversation was then ended.
UiInit ==
    /\ now = 0
    /\ rateLimitStore = EmptyMap
    /\ conversationMemory = EmptyMap
    /\ inflight = EmptyBag
    /\ last = Idle
    /\ blockEnd = [ip \in IPs |-> 0]
    /\ burst = [ip \in IPs |-> NoBurst]
    /\ recorded = EmptyMap
    /\ HistInit
    /\ requests = [i \in 1..(clientMaxRequests - 1) |-> 0]
    /\ isBlocked = FALSE
    /\ blockUntil = 0
    /\ allowedLog = [i \in 1..(clientMaxRequests - 1) |-> 0]
    /\ cooldown = NoCooldown
    /\ PageInit
    /\ localStorage = NoItem
    /\ storageLog = NoStorageLog

\* The room in localStorage during a task: none, or room for the history
UiQuotas == {-1, maxMessages}

\* The way of the engine with a full stack.  Noticed inside a try block, the
\* retries of saveChatHistory go on for a time that doubles with every frame
\* of the stack: the task does not end, and the page handles no further
\* event.  The steps of the page are those of the tasks that end.
UiInTry == {FALSE}

UiNext ==
    \E t \in UiInstants, random \in StorageRandoms, quota \in UiQuotas, inTry \in UiInTry :
        \/ \E input \in UiInputs : Submit(input, random, t, quota, inTry)
        \/ \E id \in 1..MaxSubmits, result \in FetchResults :
              FetchSettled(id, result, random, t, quota, inTry)
        \/ \E id \in 1..MaxSubmits : CancelClick(id, random, t, quota, inTry)
        \/ EndClick(t)

SpecUi == UiInit /\ [][UiNext]_vars

\* The fetch of a request that is not aborted ends: the server answers every
\* request it receives, and a request that cannot reach it fails.
UiSettle ==
    \E t \in UiInstants, random \in StorageRandoms, quota \in UiQuotas, inTry \in UiInTry,
       id \in 1..MaxSubmits, result \in FetchResults :
          FetchSettled(id, result, random, t, quota, inTry)

SpecUiFair == UiInit /\ [][UiNext]_vars /\ WF_vars(UiSettle)

(***************************************************************************)
(* ApiClient on its own (part_006:213-301): callers that do not wait for   *)
(* one call of sendMessage to return before they make the next.  A call    *)
(* runs up to its await of fetch within the caller's code.  abort() rejects*)
(* the fetch of a waiting call; the catch block of that call runs as a     *)
(* microtask, after the code that called abort() has run to its end and    *)
(* before any further event is handled.  In submits, the calls made.       *)
(***************************************************************************)
MaxCalls == 3

\* part_006:256 and 265: this.currentController = null, by the call with
\* controller id when its fetch is settled, whichever controller the field holds
ClearController(controller, id) == NoController

\* part_006:299-301
hasActiveRequest(controller) == controller # NoController

\* AbortController.abort() on controller k: the fetch of its call, if the call
\* still waits, is rejected
AbortCall(calls, k) ==
    IF k = NoController \/ calls[k].settled THEN calls
    ELSE [calls EXCEPT ![k].aborted = TRUE]

\* The calls whose fetch was rejected by abort() and whose catch block has
\* not run yet (the microtasks queued)
AbortsQueued == {k \in 1..Len(submits) : submits[k].aborted /\ ~submits[k].settled}

\* part_006:225-247: sendMessage up to its await of fetch
ApiSendMessage ==
    LET id == Len(submits) + 1 IN
    /\ Len(submits) < MaxCalls
    /\ submits' = Append(AbortCall(submits, currentController), NewSubmit)
    /\ currentController' = id
    /\ last' = [op |-> "sendMessage", id |-> id, aborted |-> currentController]
    /\ UNCHANGED <<now, rateLimitStore, conversationMemory, inflight, blockEnd, burst,
                   recorded, guardHist, limiterVars, storageVars, stale, solo, isProcessing>>

\* part_006:263-273: the catch block of call k, whose fetch was rejected with
\* an AbortError
ApiAbortHandled(k) ==
    /\ k \in AbortsQueued
    /\ submits' = [submits EXCEPT ![k].settled = TRUE]
    /\ currentController' = ClearController(currentController, k)
    /\ last' = [op |-> "returned", id |-> k, result |-> Cancelled]
    /\ UNCHANGED <<now, rateLimitStore, conversationMemory, inflight, blockEnd, burst,
                   recorded, guardHist, limiterVars, storageVars, stale, solo, isProcessing>>

\* part_006:249-262 and 263-279: the rest of call k when the answer has
\* arrived or the request has failed.  This is an event of its own: no catch
\* block of an aborted call is waiting to run.
ApiFetchSettled(k, result) ==
    /\ k \in 1..Len(submits)
    /\ ~submits[k].settled
    /\ ~submits[k].aborted
    /\ AbortsQueued = {}
    /\ submits' = [submits EXCEPT ![k].settled = TRUE]
    /\ currentController' = ClearController(currentController, k)
    /\ last' = [op |-> "returned", id |-> k, result |-> result]
    /\ UNCHANGED <<now, rateLimitStore, conversationMemory, inflight, blockEnd, burst,
                   recorded, guardHist, limiterVars, storageVars, stale, solo, isProcessing>>

\* part_006:286-293: a call of cancelCurrentRequest()
ApiCancel ==
    LET c == cancelCurrentRequest(currentController) IN
    /\ submits' = AbortCall(submits, c.aborted)
    /\ currentController' = c.currentController
    /\ last' = [op |-> "cancelCurrentRequest", aborted |-> c.aborted, result |-> c.result]
    /\ UNCHANGED <<now, rateLimitStore, conversationMemory, inflight, blockEnd, burst,
                   recorded, guardHist, limiterVars, storageVars, stale, solo, isProcessing>>

ApiNext ==
    \/ ApiSendMessage
    \/ \E k \in 1..MaxCalls : ApiAbortHandled(k)
    \/ \E k \in 1..MaxCalls, result \in FetchResults : ApiFetchSettled(k, result)
    \/ ApiCancel

SpecApi == Init /\ [][ApiNext]_vars

(***************************************************************************)
(* Recording: the turns of one session, as handleChatRequest records them  *)
(* (a user turn, then the assistant's), with clears in between.            *)
(***************************************************************************)
MaxRecorded == 22

RecordSession == generateSessionId(<<":", ":", "1">>, <<"M", "o", "z">>)

UserContents == {<<"h", "i">>, <<"y", "a">>}

TurnsRecorded(sid) == IF MapHas(recorded, sid) THEN recorded[sid] ELSE <<>>

\* addToConversationHistory(sessionId, role, content) at time t
Record(sid, role, content, t) ==
    /\ t >= now
    /\ Len(TurnsRecorded(sid)) < MaxRecorded
    /\ now' = t
    /\ conversationMemory' = addToConversationHistory(conversationMemory, sid, role, content, t)
    /\ recorded' = MapSet(recorded, sid,
                      Append(TurnsRecorded(sid),
                             [role |-> role, content |-> content, timestamp |-> t]))
    /\ last' = [op |-> "record", sessionId |-> sid]
    /\ UNCHANGED <<rateLimitStore, inflight, blockEnd, burst, guardHist, browserVars, stale, solo, uiVars>>

RecordUser(sid, content, t) ==
    /\ Len(TurnsRecorded(sid)) % 2 = 0
    /\ Record(sid, "user", content, t)

RecordAssistant(sid, t) ==
    /\ Len(TurnsRecorded(sid)) % 2 = 1
    /\ Record(sid, "assistant", <<"H", "a", "l", "o">>, t)

RecordClear(t) ==
    /\ t >= now
    /\ now' = t
    /\ conversationMemory' =
           handleClearConversation(conversationMemory, <<":", ":", "1">>, <<"M", "o", "z">>)
    /\ recorded' = IF MapHas(recorded, RecordSession)
                   THEN MapDelete(recorded, RecordSession) ELSE recorded
    /\ last' = [op |-> "clear", sessionId |-> RecordSession]
    /\ UNCHANGED <<rateLimitStore, inflight, blockEnd, burst, guardHist, browserVars, stale, solo, uiVars>>

RecordNext ==
    \/ \E content \in UserContents, t \in ChatInstants :
          RecordUser(RecordSession, content, t)
    \/ \E t \in ChatInstants : RecordAssistant(RecordSession, t)
    \/ \E t \in ChatInstants : RecordClear(t)

SpecRecord == Init /\ [][RecordNext]_vars

(***************************************************************************)
(* Chat route: properties                                                  *)
(***************************************************************************)
\* C1 (as claimed): a request the rate limiter answers with 429 goes no
\* further: validateMessageMiddleware and handleChatRequest do not run for
\* it, no AI call is made for it and no turn is recorded for it.
C1_DeniedRequestGoesNoFurther ==
    /\ (last.op = "chat" /\ last.status = 429) => ~last.validateRan /\ ~last.handlerRan
    /\ \A c \in BagToSet(inflight) : ~c.headersSent
    /\ (last.op = "reply" /\ last.denied) => last.turnsRecorded = 0

\* C23 (as claimed): every chat request is answered exactly once: the run
\* that receives it writes one response or suspends at the AI call without
\* writing, and the run that settles the AI call writes the only response of
\* the request.
C23_AnsweredExactlyOnce ==
    /\ last.op = "chat" =>
          IF last.handlerRan THEN last.writes = <<>> ELSE Len(last.writes) = 1
    /\ last.op \in {"reply", "error"} => Len(last.writes) = 1

\* C24 (as claimed): a clear is not undone by an older request: when the AI
\* call of a request that was waiting while its key was cleared resolves, no
\* turn of it enters the store: the key's session, if there is one
\* afterwards, was there before and holds the turns it held.
C24_ClearNotUndone ==
    [][(last'.op = "reply" /\ last'.overtaken) =>
          (MapHas(conversationMemory', last'.sessionId) =>
              /\ MapHas(conversationMemory, last'.sessionId)
              /\ conversationMemory'[last'.sessionId].messages
                    = conversationMemory[last'.sessionId].messages)]_vars

\* C25 (as claimed): the prompt of the first chat request of a browser after
\* its user ended the conversation carries no earlier turn: its conversation
\* context is empty.
C25_EndReachesServer ==
    [][(last.op = "end" /\ last'.op = "chat" /\ last'.handlerRan) =>
          \A c \in BagToSet(inflight') : c.context = <<>>]_vars

\* C26 (as claimed): when the AI call of a request fails, the client is sent
\* 500 and nothing else, and the store is left as it was: no turn is
\* recorded and no lastActivity changes; the request itself, on arriving, had
\* left a session that existed as it was.
C26_FailedCallLeavesSession ==
    [][/\ last'.op = "error" =>
             /\ last'.writes = <<500>>
             /\ conversationMemory' = conversationMemory
       /\ (last'.op = "chat" /\ MapHas(conversationMemory, last'.sessionId)) =>
             /\ MapHas(conversationMemory', last'.sessionId)
             /\ conversationMemory'[last'.sessionId] = conversationMemory[last'.sessionId]]_vars

\* C5 (as claimed): every session in the store has at least one turn.
C5_NoEmptySession ==
    \A sid \in DOMAIN conversationMemory : Len(conversationMemory[sid].messages) > 0

\* C6 (as claimed): the context step of handleChatRequest leaves the
\* conversation store as it was.
C6_ContextIsReadOnly ==
    [][(last'.op = "chat" /\ last'.handlerRan) =>
          conversationMemory' = conversationMemory]_vars

Min(a, b) == IF a < b THEN a ELSE b

\* C7: after every record the session holds at most 2 * MAX_CONVERSATION_LENGTH
\* turns, and they are the most recent of the turns recorded since the session
\* was created, in the order of their arrival.
C7_WindowHoldsMostRecent ==
    \A sid \in DOMAIN recorded :
        LET all  == recorded[sid]
            held == conversationMemory[sid].messages
        IN /\ MapHas(conversationMemory, sid)
           /\ Len(held) = Min(Len(all), 2 * MAX_CONVERSATION_LENGTH)
           /\ \A i \in 1..Len(held) : held[i] = all[Len(all) - Len(held) + i]

\* C7 witness: more turns were recorded than the window holds, and the
\* oldest one, which was dropped, differs from the oldest one held.
C7_Witness ==
    /\ MapHas(recorded, RecordSession)
    /\ Len(recorded[RecordSession]) = 2 * MAX_CONVERSATION_LENGTH + 2
    /\ Len(conversationMemory[RecordSession].messages) = 2 * MAX_CONVERSATION_LENGTH
    /\ recorded[RecordSession][1] # conversationMemory[RecordSession].messages[1]

\* C12: the purge pass run by a reply at time now removes every other session
\* with now - lastActivity > 30 minutes and leaves every other session with
\* now - lastActivity <= 30 minutes in the store as it was; the session of
\* the reply was recorded at now and stays.
C12_IdleExpiry ==
    [][(last'.op = "reply" /\ last'.cleanup) =>
          /\ MapHas(conversationMemory', last'.sessionId)
          /\ \A sid \in (DOMAIN conversationMemory) \ {last'.sessionId} :
                IF now' - conversationMemory[sid].lastActivity > 30 * 60 * 1000
                THEN ~MapHas(conversationMemory', sid)
                ELSE /\ MapHas(conversationMemory', sid)
                     /\ conversationMemory'[sid] = conversationMemory[sid]]_vars

\* C12 witness: one purge pass removed a session idle for 30 minutes and
\* 1 ms and kept one idle for exactly 30 minutes, turns included.
C12_Witness ==
    /\ last.op = "reply" /\ last.cleanup /\ last.purged = 1
    /\ \E sid \in DOMAIN conversationMemory :
          /\ now - conversationMemory[sid].lastActivity = 30 * 60 * 1000
          /\ Len(conversationMemory[sid].messages) = 2

\* user, assistant, user, assistant ... and as many of one as of the other
Alternates(messages) ==
    /\ Len(messages) % 2 = 0
    /\ \A i \in 1..Len(messages) :
          messages[i].role = (IF i % 2 = 1 THEN "user" ELSE "assistant")

\* new is old without some of its oldest exchanges, followed by at most one
\* more exchange: no turn went between a user turn and the reply after it.
ExchangesKept(old, new) ==
    \E d \in {k \in 0..Len(old) : k % 2 = 0}, e \in {0, 2} :
        /\ Len(new) = Len(old) - d + e
        /\ \A i \in 1..(Len(old) - d) : new[i] = old[d + i]

\* C13: after every handler run (the points where another request can see
\* the session) the turns of every session alternate user, assistant from a
\* user turn; a reply leaves its request's user turn and then its reply as
\* the last two turns; and the exchanges recorded stay together afterwards.
C13_TurnOrder ==
    [][/\ \A sid \in DOMAIN conversationMemory' :
             Alternates(conversationMemory'[sid].messages)
       /\ last'.op = "reply" =>
             LET m == conversationMemory'[last'.sessionId].messages IN
             /\ Len(m) >= 2
             /\ m[Len(m) - 1] = [role |-> "user", content |-> last'.user, timestamp |-> now']
             /\ m[Len(m)] = [role |-> "assistant", content |-> last'.bot, timestamp |-> now']
       /\ \A sid \in (DOMAIN conversationMemory) \cap (DOMAIN conversationMemory') :
             ExchangesKept(conversationMemory[sid].messages,
                           conversationMemory'[sid].messages)]_vars

\* C13 witness: a reply was recorded while another request of the session,
\* with another message, waits for the AI call; the session is full and has
\* lost one of its earlier exchanges.
C13_Witness ==
    /\ last.op = "reply"
    /\ \E c \in BagToSet(inflight) :
          c.sessionId = last.sessionId /\ c.sanitizedMessage # last.user
    /\ Len(conversationMemory[last.sessionId].messages) = 2 * MAX_CONVERSATION_LENGTH
    /\ Cardinality({i \in 1..(2 * MAX_CONVERSATION_LENGTH) :
                       conversationMemory[last.sessionId].messages[i].content = <<"h", "i">>})
          < ExchangesDone

\* lines is the rendering of messages that C14 describes: nothing for no
\* turns; otherwise a heading, the last min(8, n) turns in stored order, each
\* a line of its own with the label of its role, and the marker of the new
\* question.
RendersLastTurns(lines, messages) ==
    IF Len(messages) = 0 THEN lines = <<>>
    ELSE LET n == Len(messages)
             k == Min(8, n)
         IN /\ Len(lines) = k + 2
            /\ \A i \in 1..k :
                  /\ lines[i + 1].text = messages[n - k + i].content
                  /\ messages[n - k + i].role = "user" => lines[i + 1].label = "Pengguna"
                  /\ messages[n - k + i].role = "assistant" =>
                        lines[i + 1].label = "Sahabat Nusantara"
            /\ lines[k + 2] = [label |-> "Pertanyaan pengguna saat ini:", text |-> <<>>]

\* C14: the context handleChatRequest builds for a request renders the turns
\* its session holds at that moment as C14 describes.
C14_ContextRendering ==
    [][(last'.op = "chat" /\ last'.handlerRan) =>
          \A c \in BagToSet(inflight') :
              CopiesIn(c, inflight') > CopiesIn(c, inflight) =>
                  RendersLastTurns(c.context, conversationMemory'[c.sessionId].messages)]_vars

\* C14 witness: a request found its session with more than 8 turns, the
\* ninth from the end being other than the last, and waits with a context of
\* 8 turns that ends with the last.
C14_Witness ==
    /\ last.op = "chat" /\ last.handlerRan
    /\ \E c \in BagToSet(inflight) :
          LET m == conversationMemory[c.sessionId].messages IN
          /\ Len(m) = 2 * MAX_CONVERSATION_LENGTH
          /\ Len(c.context) = 8 + 2
          /\ c.context[8 + 1].text = m[Len(m)].content
          /\ m[8].content # m[Len(m)].content

\* C15: a clear answers 200 whether the key has a session or not; it removes
\* the session of the key and nothing else, so that the clear of a key without
\* a session (a second clear, for one) leaves the store, and its size, as
\* they were.
C15_IdempotentClear ==
    [][last'.op = "clear" =>
          /\ last'.writes = <<200>>
          /\ DOMAIN conversationMemory' = (DOMAIN conversationMemory) \ {last'.sessionId}
          /\ \A sid \in DOMAIN conversationMemory' :
                conversationMemory'[sid] = conversationMemory[sid]
          /\ ~last'.had =>
                Cardinality(DOMAIN conversationMemory') = Cardinality(DOMAIN conversationMemory)]_vars

\* C15 witness: a key without a session was cleared while the store holds
\* the exchange of another key.
C15_Witness ==
    /\ last.op = "clear" /\ ~last.had
    /\ \E sid \in DOMAIN conversationMemory :
          sid # last.sessionId /\ Len(conversationMemory[sid].messages) = 2

\* The session of a browser has been idle for more than 30 minutes.
IdleExpired(sid) ==
    /\ MapHas(conversationMemory, sid)
    /\ now - conversationMemory[sid].lastActivity > 30 * 60 * 1000

\* C16 (as claimed): a session idle for more than 30 minutes is eventually
\* removed, while requests keep being served, also when their AI calls fail.
C16_IdleEventuallyEvicted ==
    \A ua \in UserAgents :
        IdleExpired(generateSessionId(<<":", ":", "1">>, ua))
            ~> ~MapHas(conversationMemory, generateSessionId(<<":", ":", "1">>, ua))

(***************************************************************************)
(* Rate limiter: properties                                                *)
(***************************************************************************)
FreshEntry(t) == [count |-> 1, resetTime |-> t, blocked |-> FALSE, blockedUntil |-> 0]

\* C2 (as claimed): while the block triggered for a key at T is open, every
\* request of the key before T + blockDuration is denied, and the first one
\* at or after T + blockDuration is admitted and starts a fresh window.
C2_BlockLastsBlockDuration ==
    (last.op = "rate" /\ last.openEnd > 0) =>
        IF now < last.openEnd
        THEN last.status = 429
        ELSE /\ last.status = 0
             /\ rateLimitStore[last.ip] = FreshEntry(now)

\* An entry the purge must keep according to C4: blocked with blockedUntil
\* in the future, or counting within windowMs of t.
Live(e, t) ==
    \/ e.blocked /\ e.blockedUntil > t
    \/ ~e.blocked /\ t - e.resetTime <= windowMs

\* C4 (as claimed): the purge run by a request removes exactly the entries
\* that are not live; the entries of the keys other than the requesting one
\* are touched by the purge only.
C4_PurgeRemovesExactlyDeadEntries ==
    [][last'.op = "rate" =>
         \A ip \in (DOMAIN rateLimitStore) \ {last'.ip} :
            (ip \in DOMAIN rateLimitStore') <=> Live(rateLimitStore[ip], now')]_vars

\* s is the least number of whole seconds covering ms milliseconds.
IsCeilSeconds(s, ms) == s * 1000 >= ms /\ (s - 1) * 1000 < ms

C10_WindowReset ==
    (last.op = "rate" /\ last.had /\ ~last.prev.blocked) =>
        IF now - last.prev.resetTime > windowMs
        THEN /\ last.status = 0 /\ last.next
             /\ rateLimitStore[last.ip] = FreshEntry(now)
        ELSE /\ rateLimitStore[last.ip].count = last.prev.count + 1
             /\ rateLimitStore[last.ip].resetTime = last.prev.resetTime

\* C10 witness: a full window (count = maxRequests) is reset by a late
\* request.
C10_Witness ==
    /\ last.op = "rate" /\ last.had /\ ~last.prev.blocked
    /\ last.prev.count = maxRequests
    /\ now - last.prev.resetTime > windowMs
    /\ rateLimitStore[last.ip].count = 1

\* C3: of the requests of a fresh key within windowMs of its first one, the
\* first maxRequests are admitted, and the next one is denied and leaves the
\* key blocked until now + blockDuration.
C3_AdmissionBoundary ==
    /\ \A ip \in IPs :
          /\ burst[ip].sent <= maxRequests =>
                burst[ip].admitted = burst[ip].sent /\ burst[ip].denied = 0
          /\ burst[ip].sent = maxRequests + 1 =>
                burst[ip].admitted = maxRequests /\ burst[ip].denied = 1
    /\ (last.op = "rate" /\ burst[last.ip].sent = maxRequests + 1) =>
          /\ last.status = 429
          /\ rateLimitStore[last.ip].blocked
          /\ rateLimitStore[last.ip].blockedUntil = now + blockDuration

C3_Witness ==
    /\ last.op = "rate" /\ burst[last.ip].sent = maxRequests + 1
    /\ last.status = 429
    /\ now - burst[last.ip].first = windowMs

\* C8: of BurstSize = maxRequests + 5 requests of a fresh key within one
\* window, in every order with the other key's requests, exactly maxRequests
\* are admitted and 5 are denied; every request is counted once.
C8_BurstCounts ==
    \A ip \in IPs :
        /\ burst[ip].admitted + burst[ip].denied = burst[ip].sent
        /\ burst[ip].sent = BurstSize =>
              burst[ip].admitted = maxRequests /\ burst[ip].denied = 5

C8_Witness ==
    /\ \A ip \in IPs : burst[ip].sent = BurstSize /\ burst[ip].denied = 5
    /\ \E ip \in IPs : burst[ip].first # 0

\* C27: a request denied because its key is blocked leaves the key's entry
\* as it was: count, resetTime, blocked and blockedUntil are those of before
\* the call.
C27_BlockedDenialChangesNothing ==
    (last.op = "rate" /\ last.status = 429 /\ last.body = BodyBlocked) =>
        /\ last.had
        /\ MapHas(rateLimitStore, last.ip)
        /\ rateLimitStore[last.ip] = last.prev

\* C27 witness: a request denied 1 ms after the request that triggered the
\* block; the block still ends blockDuration after the trigger.
C27_Witness ==
    /\ last.op = "rate" /\ last.status = 429 /\ last.body = BodyBlocked
    /\ last.prev.blocked /\ last.prev.count = maxRequests + 1
    /\ now = last.prev.blockedUntil - blockDuration + 1
    /\ rateLimitStore[last.ip].blockedUntil = now - 1 + blockDuration

\* C28: the answer to every request of a key (the status and text written,
\* whether next() is called) is the answer the same request gets in the run
\* that holds the key's requests only, at the same times: it is a function of
\* the times of the key's own requests.
C28_KeysDoNotInterfere ==
    last.op = "rate" =>
        /\ last.status = last.alone.status
        /\ last.body = last.alone.body
        /\ last.seconds = last.alone.seconds
        /\ last.next = last.alone.next

\* C28 witness: a request of a key whose entry a request of another key has
\* purged: on its own the key still has the entry, holding the most it can
\* without a block, and the request is let through in both runs.
C28_Witness ==
    /\ last.op = "rate" /\ ~last.had
    /\ last.alone.had /\ last.alone.prev.count = maxRequests
    /\ last.status = 0 /\ last.next
    /\ Cardinality(DOMAIN rateLimitStore) = 2

\* C29: in every reachable state every entry of the store has count >= 1, is
\* blocked exactly when count > maxRequests, and has blockedUntil = 0 when it
\* is not blocked and blockedUntil = the time of the request that triggered
\* the block + blockDuration when it is; count is at most maxRequests + 1.
C29_EntryInvariant ==
    \A ip \in DOMAIN rateLimitStore :
        LET e == rateLimitStore[ip] IN
        /\ e.count >= 1
        /\ e.blocked <=> e.count > 10
        /\ ~e.blocked => e.blockedUntil = 0
        /\ e.blocked => e.blockedUntil = blockEnd[ip] /\ e.blockedUntil >= e.resetTime + 300000
        /\ e.count <= 10 + 1

\* C29 witness: a key blocked by its 11th request, 1 ms after its window
\* started, and denied since, next to a key that is not blocked.
C29_Witness ==
    /\ last.op = "rate" /\ last.status = 429 /\ last.body = BodyBlocked
    /\ rateLimitStore[last.ip].count = maxRequests + 1
    /\ rateLimitStore[last.ip].blockedUntil = rateLimitStore[last.ip].resetTime + 1 + blockDuration
    /\ \E ip \in DOMAIN rateLimitStore : ~rateLimitStore[ip].blocked /\ rateLimitStore[ip].count > 1

\* C11: the admissions of a key inside an interval of length windowMs (both
\* ends counted) are at most 2 * maxRequests, and more than maxRequests of
\* them only when they were counted by two different windows.  Every such
\* interval that holds an admission ends at or after one, so it is enough to
\* look, in every state, at the interval that ends now.
C11_BoundaryBurstBound ==
    \A ip \in DOMAIN admitLog :
        LET inside == RecentAdmissions(admitLog[ip], now) IN
        /\ Len(inside) <= 2 * maxRequests
        /\ Len(inside) > maxRequests =>
              \E i, j \in 1..Len(inside) : inside[i].window # inside[j].window

\* C11 witness: the most the code admits in one interval: all but the first
\* admission of a window that began windowMs + 1 ago, and a full next window.
C11_Witness ==
    \E ip \in DOMAIN admitLog :
        LET inside == RecentAdmissions(admitLog[ip], now) IN
        /\ Len(inside) = 2 * maxRequests - 1
        /\ inside[1].window = now - windowMs - 1
        /\ inside[Len(inside)].window = now

C18_ClientLimit ==
    /\ Len(SelectSeq(allowedLog, LAMBDA a : now - a < 60000)) <= 5
    /\ Len(requests) <= 5

\* C18 witness: five calls were allowed in the last minute, the oldest of
\* them 59999 ms ago, and the call now was denied.
C18_Witness ==
    /\ last.op = "check" /\ ~last.allowed
    /\ Len(allowedLog) = 5
    /\ now - allowedLog[1] = timeWindow - 1

\* C19: while the cooldown of a limit denial at time T runs, a call before
\* T + timeWindow is denied and adds nothing to requests, and the first call
\* at or after T + timeWindow is allowed and leaves requests holding that
\* call alone.
C19_ClientCooldown ==
    (last.op = "check" /\ last.cooldown.open) =>
        IF now < last.cooldown.at + timeWindow
        THEN /\ ~last.allowed
             /\ Len(requests) <= Len(last.prevRequests)
             /\ \A i \in 1..Len(requests) : \E j \in 1..Len(last.prevRequests) :
                   requests[i] = last.prevRequests[j]
             /\ cooldown = last.cooldown
        ELSE /\ last.allowed
             /\ requests = <<now>>

\* C19 witness: the first call after a cooldown, exactly timeWindow after the
\* denial; the denial was 1 ms after the five calls it counted.
C19_Witness ==
    /\ last.op = "check" /\ last.cooldown.open
    /\ now = last.cooldown.at + timeWindow
    /\ last.allowed
    /\ last.cooldown.at = 1

\* C20: a call of getChatHistory (by a page load, or inside addMessage) that
\* finds a stored item returns the empty list when more than 6 hours have
\* passed since the item's timestamp, and the page load leaves no item;
\* otherwise it returns the item's messages as they are stored, and the page
\* load leaves the item, its timestamp included, as it was.
C20_HistoryExpiry ==
    (last.op \in {"get", "add"} /\ last.prev.present) =>
        IF now - last.prev.data.timestamp > 6 * 60 * 60 * 1000
        THEN /\ last.got = <<>>
             /\ last.op = "get" => ~localStorage.present
        ELSE /\ last.got = last.prev.data.messages
             /\ last.op = "get" => localStorage = last.prev

\* C20 witness: a page load 6 hours and 1 ms after the last save of a history
\* of two different messages finds it expired and removes it.
C20_Witness ==
    /\ last.op = "get" /\ last.prev.present
    /\ now - last.prev.data.timestamp = ttlHours * 60 * 60 * 1000 + 1
    /\ Len(last.prev.data.messages) >= 2
    /\ last.prev.data.messages[1].content # last.prev.data.messages[2].content
    /\ last.got = <<>> /\ ~localStorage.present

\* s is the end of t
IsSuffix(s, t) == Len(s) <= Len(t) /\ s = SliceLast(t, Len(s))

\* C21: the stored history holds at most 50 messages, and they are the
\* messages most recently handed to ChatStorage, in the order they were
\* handed over; an addMessage that finds room for the whole history leaves
\* the last 50 of the history it read and its own message.
C21_HistoryLimit ==
    localStorage.present =>
        /\ Len(localStorage.data.messages) <= 50
        /\ IsSuffix(localStorage.data.messages, storageLog.added)
        /\ (last.op = "add" /\ last.quota >= 50) =>
               localStorage.data.messages = SliceLast(Append(last.got, last.newMessage), 50)

\* C21 witness: a message was added to a history of 50 messages; the oldest
\* of them is gone and the others moved up.
C21_Witness ==
    /\ last.op = "add" /\ Len(last.got) = 50
    /\ Len(localStorage.data.messages) = 50
    /\ localStorage.data.messages[1] = last.got[2]
    /\ localStorage.data.messages[50] = last.newMessage

\* C30: the chat page has at most one chat request in flight.  While the
\* loading element of a submit is in the chat box isProcessing is true; a
\* submit made while isProcessing is true is ignored and changes nothing of
\* the page, its rate limiter or its storage; and sendMessage is called only
\* when every earlier call has completed or been cancelled, so that at most
\* one call is waiting for its fetch.
C30_OneRequestInFlight ==
    [][/\ \A i \in 1..Len(submits') : submits'[i].loading => isProcessing'
       /\ (last'.op = "submit" /\ isProcessing) =>
             /\ last'.outcome = "ignored"
             /\ UNCHANGED <<uiVars, limiterVars, storageVars>>
       /\ Len(submits') > Len(submits) =>
             \A i \in 1..Len(submits) : submits[i].settled \/ submits[i].aborted
       /\ Cardinality({i \in 1..Len(submits') : ~submits'[i].settled}) <= 1]_vars

\* C30 (witness): a submit has just been ignored while the request of an
\* earlier one, made after another had been answered, waits for its answer
C30_Witness ==
    /\ last.op = "submit" /\ last.outcome = "ignored"
    /\ isProcessing
    /\ Len(submits) = 2
    /\ submits[1].settled /\ submits[1].shown = <<"reply">>
    /\ ~submits[2].settled /\ submits[2].loading
    /\ currentController = 2

\* C31: once a submitted message has passed the checks of the page (its
\* loading element is in the chat box), the loading element is eventually
\* removed with the input enabled again, whether the request is answered,
\* fails or is cancelled.
C31_InputReenabled ==
    \A id \in 1..MaxSubmits :
        (Len(submits) >= id /\ submits[id].loading)
            ~> (Len(submits) >= id /\ ~submits[id].loading /\ ~isProcessing)

\* C31 (witness): the second request of the page was cancelled while it
\* waited, after the first had failed; the input is enabled and no loading
\* element is left
C31_Witness ==
    /\ last.op = "cancel" /\ last.cancelled
    /\ Len(submits) = 2
    /\ submits[1].shown = <<"error">>
    /\ submits[2].aborted /\ submits[2].settled
    /\ ~submits[1].loading /\ ~submits[2].loading
    /\ ~isProcessing

\* C32 (as claimed): for each submit that reached sendMessage the page shows
\* at most one outcome, and exactly one once the call has returned: a reply,
\* an error message or one cancellation notice.
C32_OneOutcome ==
    \A i \in 1..Len(submits) :
        /\ Len(submits[i].shown) <= 1
        /\ submits[i].settled => Len(submits[i].shown) = 1

\* C33 (as claimed): whenever a call of sendMessage waits for its fetch and
\* has not been aborted, hasActiveRequest() is true and cancelCurrentRequest()
\* would abort that call and return true (the field holds its controller),
\* also after a later call of sendMessage has aborted an earlier one.
C33_TracksInFlight ==
    \A k \in 1..Len(submits) :
        (~submits[k].settled /\ ~submits[k].aborted) =>
            /\ hasActiveRequest(currentController)
            /\ cancelCurrentRequest(currentController).aborted = k
            /\ cancelCurrentRequest(currentController).result

\* C34 (as claimed): a call of saveChatHistory returns, without throwing,
\* after a bounded number of attempts: its own setItem, the one of
\* clearOldMessages and the one of the retry with fewer messages.
C34_SaveTerminates ==
    last.op = "save" => (~last.thrown /\ last.attempts <= 3)

\* The text is one importChatHistory refuses: JSON.parse throws on it, or it
\* parses to null or to an object whose messages property is not an array
Refused(jsonData) ==
    \/ ~jsonData.parses
    \/ jsonData.value.type = "null"
    \/ jsonData.value.messages.type # "array"

\* C35: for a stored history that has not expired, importChatHistory of what
\* exportChatHistory returns is true and leaves getChatHistory returning the
\* same messages in the same order; importChatHistory of a text that is
\* malformed or has no messages array returns false and leaves the stored
\* item as it was.
C35_ExportImportRoundTrip ==
    /\ (/\ last.op = "exportImport"
        /\ last.prev.present
        /\ ~isExpired(last.prev.data.timestamp, last.at)) =>
            /\ last.result
            /\ getChatHistory(localStorage, now).result = last.prev.data.messages
    /\ (last.op = "import" /\ Refused(last.jsonData)) =>
            /\ ~last.result
            /\ localStorage = last.prev

\* C35 (witness): a history of maxMessages messages, left by an import, was
\* exported just before its TTL passed and imported after it, and is read
\* unchanged
C35_Witness ==
    /\ last.op = "exportImport"
    /\ last.result
    /\ last.prev.present
    /\ Len(last.prev.data.messages) = maxMessages
    /\ ~isExpired(last.prev.data.timestamp, last.at)
    /\ isExpired(last.prev.data.timestamp, now)
    /\ getChatHistory(localStorage, now).result = last.prev.data.messages

(***************************************************************************)
(* Sanitization: properties                                                *)
(***************************************************************************)
\* C22 (as claimed): the sanitizedMessage of an accepted input is not empty,
\* holds at most 1000 characters, no "<" or ">", no "javascript:" in any
\* letter case, no on<word>= pattern and no NUL, and sanitizing it again
\* returns it unchanged.
C22_SanitizedIsClean ==
    (last.op = "validate" /\ last.validation.isValid) =>
        LET m == last.validation.sanitizedMessage IN
        /\ m # <<>>
        /\ Len(m) <= 1000
        /\ \A i \in 1..Len(m) : m[i] \notin {"<", ">", NUL}
        /\ ~ContainsJavascript(m)
        /\ ~ContainsHandler(m)
        /\ sanitize(m) = m

====
